---- MODULE Spec2Model ----
(***************************************************************************)
(* Model of inwestomat_transactions: the normalization rules that turn a   *)
(* Binance trade (split_binance_tx_to_inwestomat_txs, convert_binance_tx)  *)
(* or an XTB cash operation (convert_xtb_tx) into InwestomatTx ledger      *)
(* records, the lookups, the readers, the writer and the two runs.         *)
(*                                                                         *)
(* Specifications: Spec (one source record through its rule), SpecMarket   *)
(* (identify_binance_market_assets), SpecFormat (_format_number),          *)
(* SpecGetPrice (get_price), SpecGetPlnRate (get_pln_rate), SpecReadXtb    *)
(* (one row through read_xtb_transactions), SpecRun (convert_xtb and       *)
(* convert_binance over a source file, one source row per step), SpecPass  *)
(* (the same runs, one step per reader yield, conversion and row written). *)
(*                                                                         *)
(* Strings the code takes apart or concatenates (tickers, symbols, ids,    *)
(* comments, cells, rows) are sequences of one-character strings.  In the  *)
(* rules a Decimal is the pair (c, e) standing for c * 10^e, the sign      *)
(* folded into c; their inputs are small enough that no result reaches the *)
(* 28 significant digits of the default decimal context, so every          *)
(* operation on them is exact, as it is in the code for such inputs.       *)
(* _format_number works on the digits of the coefficient and rounds to     *)
(* those 28 digits as Decimal.normalize does.                              *)
(***************************************************************************)
EXTENDS Integers, Sequences, FiniteSets, TLC

VARIABLES exchange, call, pc, btx, xtx, currency, pln_prices, pln_rate, result, error,
          arg, lookups, output, pos

\* exchange: the exchange main() was started for, or the function called;
\* call: the function applied;  pc: where the call or the run stands;
\* btx, xtx: the source record at hand;  currency: the account's settlement
\* currency;  pln_prices, pln_rate: what the lookups resolved;  result: the
\* value returned (in a run: the records handed to the writer so far);
\* error: the exception raised;  arg: the input of a call (in a run: the
\* source file), for convert_binance_tx the reply of the price lookup;
\* lookups: the requests issued to the external services, in order;
\* output: the rows written to the output file;  pos: the source rows
\* converted so far
vars == <<exchange, call, pc, btx, xtx, currency, pln_prices, pln_rate, result, error,
          arg, lookups, output, pos>>

(***************************************************************************)
(* Bounds of the model.                                                    *)
(***************************************************************************)
\* largest coefficient of an input Decimal
MaxCoef == 2

(***************************************************************************)
(* decimal.Decimal                                                         *)
(***************************************************************************)
Dec(c, e) == [c |-> c, e |-> e]

Zero == Dec(0, 0)

One == Dec(1, 0)

RECURSIVE Pow10(_)
Pow10(n) == IF n <= 0 THEN 1 ELSE 10 * Pow10(n - 1)

MinExp(a, b) == IF a.e <= b.e THEN a.e ELSE b.e

\* the integer a stands for, counted in units of 10^m  (m <= a.e)
Units(a, m) == a.c * Pow10(a.e - m)

\* Decimal.__mul__: coefficients multiply, exponents add
Mul(a, b) == Dec(a.c * b.c, a.e + b.e)

\* Decimal.__sub__: the result takes the smaller exponent
Sub(a, b) == Dec(Units(a, MinExp(a, b)) - Units(b, MinExp(a, b)), MinExp(a, b))

\* Decimal.__add__ (used only to state properties)
Add(a, b) == Dec(Units(a, MinExp(a, b)) + Units(b, MinExp(a, b)), MinExp(a, b))

\* Decimal.__abs__
Abs(a) == Dec(IF a.c < 0 THEN 0 - a.c ELSE a.c, a.e)

\* Decimal.__eq__: numeric equality, 1.0 == 1
NumEq(a, b) == Units(a, MinExp(a, b)) = Units(b, MinExp(a, b))

(***************************************************************************)
(* Enumerations, tickers and records                                       *)
(***************************************************************************)
\* class TxType
TxType == {"BUY", "SELL", "DEPOSIT", "WITHDRAW", "DIVIDEND_INTEREST", "COSTS", "SPLIT"}

\* class Currency
Currency == {"PLN", "USD", "EUR", "GBP", "CHF"}

\* Currency.value, as text
CurrencyValue(cur) ==
    CASE cur = "PLN" -> <<"P", "L", "N">>
      [] cur = "USD" -> <<"U", "S", "D">>
      [] cur = "EUR" -> <<"E", "U", "R">>
      [] cur = "GBP" -> <<"G", "B", "P">>
      [] cur = "CHF" -> <<"C", "H", "F">>

\* Currency.ticker
CurrencyTicker(cur) ==
    IF cur = "PLN"
    THEN <<"G", "o", "t", "ó", "w", "k", "a">>
    ELSE <<"W", "a", "l", "u", "t", "y", "_">> \o CurrencyValue(cur)

\* dataclass InwestomatTx
InwestomatTx(date, ticker, cur, type, amount, price, rate, nominal_price, total_pln, fee, comment) ==
    [date |-> date, ticker |-> ticker, currency |-> cur, type |-> type,
     amount |-> amount, price |-> price, pln_rate |-> rate,
     nominal_price |-> nominal_price, total_pln |-> total_pln, fee |-> fee,
     comment |-> comment]

\* dataclass BinanceTx
BinanceTx(date, market, type, amount, price, total, fee, fee_coin) ==
    [date |-> date, market |-> market, type |-> type, amount |-> amount,
     price |-> price, total |-> total, fee |-> fee, fee_coin |-> fee_coin]

(***************************************************************************)
(* Binance: one trade becomes a SELL leg and a BUY leg                     *)
(***************************************************************************)
format_cryptocurrency_ticker(ticker) ==
    <<"C", "U", "R", "R", "E", "N", "C", "Y", ":">> \o ticker \o <<"P", "L", "N">>

\* find_pln_prices with the base asset's price left in quote units
find_pln_prices_unconverted(quote_asset_in_pln, market, price) ==
    [t \in {market[1], market[2]} |->
        IF t = market[2] THEN quote_asset_in_pln ELSE price]

\* find_pln_prices, quote_asset_in_pln being what get_price((quote, "PLN")) returned;
\* in the dict literal the quote entry is written last
find_pln_prices(quote_asset_in_pln, market, price) ==
    [t \in {market[1], market[2]} |->
        IF t = market[2] THEN quote_asset_in_pln ELSE Mul(price, quote_asset_in_pln)]

\* the match of split_binance_tx_to_inwestomat_txs with the SELL case read as BUY
BinanceLegs_unswapped(b) ==
    [buy_ticker |-> b.market[1], sell_ticker |-> b.market[2],
     sell_amount |-> b.total, buy_amount |-> b.amount]

\* the match on btx.type: which ticker and raw amount is given, which is taken
BinanceLegs(b) ==
    CASE b.type = "BUY" ->
            [buy_ticker |-> b.market[1], sell_ticker |-> b.market[2],
             sell_amount |-> b.total, buy_amount |-> b.amount]
      [] b.type = "SELL" ->
            [sell_ticker |-> b.market[1], buy_ticker |-> b.market[2],
             sell_amount |-> b.amount, buy_amount |-> b.total]

\* the fee adjustment applied whatever the fee coin is
BinanceFee_always(b, buy_ticker, buy_amount, buy_price) ==
    [buy_amount |-> Sub(buy_amount, b.fee), buy_fee |-> Mul(b.fee, buy_price)]

\* the fee adjustment with the amount left as it was
BinanceFee_not_subtracted(b, buy_ticker, buy_amount, buy_price) ==
    IF b.fee_coin = buy_ticker
    THEN [buy_amount |-> buy_amount, buy_fee |-> Mul(b.fee, buy_price)]
    ELSE [buy_amount |-> buy_amount, buy_fee |-> Zero]

\* the fee adjustment with the fee left in units of the bought asset
BinanceFee_unpriced(b, buy_ticker, buy_amount, buy_price) ==
    IF b.fee_coin = buy_ticker
    THEN [buy_amount |-> Sub(buy_amount, b.fee), buy_fee |-> b.fee]
    ELSE [buy_amount |-> buy_amount, buy_fee |-> Zero]

\* sell_fee = buy_fee = Decimal(); if btx.fee_coin == buy_ticker: ...
BinanceFee(b, buy_ticker, buy_amount, buy_price) ==
    IF b.fee_coin = buy_ticker
    THEN [buy_amount |-> Sub(buy_amount, b.fee), buy_fee |-> Mul(b.fee, buy_price)]
    ELSE [buy_amount |-> buy_amount, buy_fee |-> Zero]

split_binance_tx_to_inwestomat_txs(b, prices) ==
    LET legs == BinanceLegs(b)
        sell_price == prices[legs.sell_ticker]
        buy_price == prices[legs.buy_ticker]
        sell_total_pln == Mul(legs.sell_amount, sell_price)
        buy_total_pln == Mul(legs.buy_amount, buy_price)
        adj == BinanceFee(b, legs.buy_ticker, legs.buy_amount, buy_price)
        sell_tx == InwestomatTx(b.date, format_cryptocurrency_ticker(legs.sell_ticker),
                                "PLN", "SELL", legs.sell_amount, sell_price,
                                One, One, sell_total_pln, Zero, <<>>)
        buy_tx == InwestomatTx(b.date, format_cryptocurrency_ticker(legs.buy_ticker),
                               "PLN", "BUY", adj.buy_amount, buy_price,
                               One, One, buy_total_pln, adj.buy_fee, <<>>)
    IN  <<sell_tx, buy_tx>>

PLN == <<"P", "L", "N">>

\* the get_price calls of find_pln_prices with the base asset looked up as well
find_pln_prices_calls_both(market) == <<<<market[2], PLN>>, <<market[1], PLN>>>>

\* the markets find_pln_prices passes to get_price, in order:
\* quote_asset_in_pln = get_price((quote_asset, "PLN"))
find_pln_prices_calls(market) == <<<<market[2], PLN>>>>

\* convert_binance_tx: find_pln_prices, then the split
convert_binance_tx(b, quote_asset_in_pln) ==
    split_binance_tx_to_inwestomat_txs(b, find_pln_prices(quote_asset_in_pln, b.market, b.price))

(***************************************************************************)
(* XTB: one cash operation becomes an asset/cash leg and, when the account *)
(* is not in PLN, a currency leg                                           *)
(***************************************************************************)
\* dataclass XtbBuySell
XtbBuySell(id, type, time, symbol, asset_amount, price, currency_amount) ==
    [kind |-> "XtbBuySell", id |-> id, type |-> type, time |-> time, symbol |-> symbol,
     asset_amount |-> asset_amount, price |-> price, currency_amount |-> currency_amount]

\* dataclass XtbDepositWithdraw
XtbDepositWithdraw(id, type, time, currency_amount) ==
    [kind |-> "XtbDepositWithdraw", id |-> id, type |-> type, time |-> time,
     currency_amount |-> currency_amount]

\* dataclass XtbDividendInterest
XtbDividendInterest(id, time, symbol, currency_amount) ==
    [kind |-> "XtbDividendInterest", id |-> id, time |-> time, symbol |-> symbol,
     currency_amount |-> currency_amount]

\* dataclass XtbCosts
XtbCosts(id, time, symbol, currency_amount) ==
    [kind |-> "XtbCosts", id |-> id, time |-> time, symbol |-> symbol,
     currency_amount |-> currency_amount]

\* a call that returned value / a call that raised the exception named
Returned(value) == [raised |-> "", value |-> value]

Raised(exception) == [raised |-> exception, value |-> <<>>]

\* position of the first "." of ticker, 0 when it has none
FirstDot(ticker) ==
    IF \E i \in 1..Len(ticker) : ticker[i] = "."
    THEN CHOOSE i \in 1..Len(ticker) :
            ticker[i] = "." /\ \A j \in 1..(i - 1) : ticker[j] # "."
    ELSE 0

\* str.partition(".")
Partition(ticker) ==
    IF FirstDot(ticker) = 0
    THEN [core |-> ticker, sep |-> <<>>, country |-> <<>>]
    ELSE [core |-> SubSeq(ticker, 1, FirstDot(ticker) - 1), sep |-> <<".">>,
          country |-> SubSeq(ticker, FirstDot(ticker) + 1, Len(ticker))]

\* convert_xtb_ticker with the symbol kept as it is for a country it does not know
convert_xtb_ticker_default(ticker) ==
    LET p == Partition(ticker)
    IN  IF p.sep = <<>> THEN Raised("AssertionError")
        ELSE IF p.country = <<"P", "L">> THEN Returned(<<"W", "S", "E", ":">> \o p.core)
        ELSE IF p.country = <<"U", "K">> THEN Returned(<<"L", "O", "N", ":">> \o p.core)
        ELSE Returned(ticker)

convert_xtb_ticker(ticker) ==
    LET p == Partition(ticker)
    IN  IF p.sep = <<>> THEN Raised("AssertionError")
        ELSE IF p.country = <<"P", "L">> THEN Returned(<<"W", "S", "E", ":">> \o p.core)
        ELSE IF p.country = <<"U", "K">> THEN Returned(<<"L", "O", "N", ":">> \o p.core)
        ELSE Raised("ValueError")

\* get_pln_rate, mid being the "mid" of the last rate of the NBP answer
get_pln_rate(cur, mid) == IF cur = "PLN" THEN One ELSE mid

\* datetime.date(): the day (days since the epoch) of a time in seconds
DayOf(time) == time \div 86400

\* the requests get_pln_rate sends to api.nbp.pl for the day given: none for
\* PLN, else one for the rates of table A from 5 days to 1 day before it
get_pln_rate_requests(cur, day) ==
    IF cur = "PLN" THEN <<>>
    ELSE <<[currency |-> cur, start |-> day - 5, stop |-> day - 1]>>

\* total_pln with the sign of the cash amount kept
XtbTotalPln_signed(tx, rate) == Mul(tx.currency_amount, rate)

\* total_pln left in the settlement currency
XtbTotalPln_unconverted(tx, rate) == Abs(tx.currency_amount)

\* total_pln = abs(tx.currency_amount)*pln_rate
XtbTotalPln(tx, rate) == Mul(Abs(tx.currency_amount), rate)

\* the asset leg's ticker with the PLN cash ticker for every symbol-less record
AssetTicker_domestic(tx, cur) ==
    CASE tx.kind = "XtbBuySell" -> convert_xtb_ticker(tx.symbol)
      [] tx.kind = "XtbDepositWithdraw" -> Returned(CurrencyTicker("PLN"))
      [] tx.kind = "XtbDividendInterest" ->
            IF tx.symbol # <<>> THEN convert_xtb_ticker(tx.symbol)
            ELSE Returned(CurrencyTicker("PLN"))
      [] tx.kind = "XtbCosts" ->
            IF tx.symbol # <<>> THEN convert_xtb_ticker(tx.symbol)
            ELSE Returned(CurrencyTicker("PLN"))

\* asset_tx.ticker, per variant
AssetTicker(tx, cur) ==
    CASE tx.kind = "XtbBuySell" -> convert_xtb_ticker(tx.symbol)
      [] tx.kind = "XtbDepositWithdraw" -> Returned(CurrencyTicker("PLN"))
      [] tx.kind = "XtbDividendInterest" ->
            IF tx.symbol # <<>> THEN convert_xtb_ticker(tx.symbol)
            ELSE Returned(CurrencyTicker(cur))
      [] tx.kind = "XtbCosts" ->
            IF tx.symbol # <<>> THEN convert_xtb_ticker(tx.symbol)
            ELSE Returned(CurrencyTicker("PLN"))

\* the asset leg's currency with the settlement currency for every variant
AssetCurrency_settlement(tx, cur) == cur

\* asset_tx.currency, per variant
AssetCurrency(tx, cur) ==
    CASE tx.kind = "XtbBuySell" -> cur
      [] tx.kind = "XtbDepositWithdraw" -> "PLN"
      [] tx.kind = "XtbDividendInterest" -> cur
      [] tx.kind = "XtbCosts" -> "PLN"

\* the asset leg's pln_rate with the resolved rate for every variant
AssetRate_resolved(tx, rate) == rate

\* asset_tx.pln_rate, per variant
AssetRate(tx, rate) == IF tx.kind = "XtbDepositWithdraw" THEN One ELSE rate

\* asset_tx.type, per variant
AssetType(tx) ==
    CASE tx.kind = "XtbBuySell" -> tx.type
      [] tx.kind = "XtbDepositWithdraw" -> tx.type
      [] tx.kind = "XtbDividendInterest" -> "DIVIDEND_INTEREST"
      [] tx.kind = "XtbCosts" -> "COSTS"

\* the asset leg's amount with the cash amount for the cash-only variants
AssetAmount_cash(tx) ==
    IF tx.kind = "XtbBuySell" THEN tx.asset_amount ELSE Abs(tx.currency_amount)

\* asset_tx.amount, per variant
AssetAmount(tx) == IF tx.kind = "XtbBuySell" THEN tx.asset_amount ELSE One

\* asset_tx.price, per variant
AssetPrice(tx) == IF tx.kind = "XtbBuySell" THEN tx.price ELSE One

\* the currency leg's type with the cash movement of the asset leg repeated
CurrencyTxType_same(tx) ==
    CASE tx.kind = "XtbBuySell" -> tx.type
      [] tx.kind = "XtbDepositWithdraw" /\ tx.type = "WITHDRAW" -> "SELL"
      [] tx.kind = "XtbDepositWithdraw" /\ tx.type = "DEPOSIT" -> "BUY"
      [] tx.kind = "XtbDividendInterest" -> "BUY"
      [] tx.kind = "XtbCosts" -> "SELL"

\* currency_tx.type: the opposite cash movement
CurrencyTxType(tx) ==
    CASE tx.kind = "XtbBuySell" /\ tx.type = "BUY" -> "SELL"
      [] tx.kind = "XtbBuySell" /\ tx.type = "SELL" -> "BUY"
      [] tx.kind = "XtbDepositWithdraw" /\ tx.type = "WITHDRAW" -> "SELL"
      [] tx.kind = "XtbDepositWithdraw" /\ tx.type = "DEPOSIT" -> "BUY"
      [] tx.kind = "XtbDividendInterest" -> "BUY"
      [] tx.kind = "XtbCosts" -> "SELL"

\* the return statement with the currency leg kept for a PLN account too
XtbLegs_both(asset_tx, currency_tx, cur) == <<asset_tx, currency_tx>>

\* return [asset_tx] if currency == Currency.PLN else [asset_tx, currency_tx]
XtbLegs(asset_tx, currency_tx, cur) ==
    IF cur = "PLN" THEN <<asset_tx>> ELSE <<asset_tx, currency_tx>>

convert_xtb_tx(tx, cur, rate) ==
    LET total_pln == XtbTotalPln(tx, rate)
        ticker == AssetTicker(tx, cur)
        comment == <<"I", "D", ":">> \o tx.id
        asset_tx == InwestomatTx(tx.time, ticker.value, AssetCurrency(tx, cur),
                                 AssetType(tx), AssetAmount(tx), AssetPrice(tx),
                                 AssetRate(tx, rate), One, total_pln, Zero, comment)
        currency_tx == InwestomatTx(tx.time, CurrencyTicker(cur), cur,
                                    CurrencyTxType(tx), Abs(tx.currency_amount), One,
                                    rate, One, total_pln, Zero, comment)
    IN  IF ticker.raised # "" THEN Raised(ticker.raised)
        ELSE Returned(XtbLegs(asset_tx, currency_tx, cur))

(***************************************************************************)
(* Inputs                                                                  *)
(***************************************************************************)
\* exponents of the input Decimals: whole numbers and tenths ("2", "0.2")
Exponents == {0, 0 - 1}

\* amounts, prices, totals, rates
PosDecimals == {Dec(c, e) : c \in 1..MaxCoef, e \in Exponents}

\* fees
FeeDecimals == {Dec(c, e) : c \in 0..1, e \in Exponents}

\* signed cash amounts of an XTB account
CashDecimals == {Dec(c, e) : c \in (0 - MaxCoef)..MaxCoef, e \in Exponents}

\* timestamps, in seconds
Dates == {0, 1}

ADA == <<"A", "D", "A">>

BTC == <<"B", "T", "C">>

BNB == <<"B", "N", "B">>

Markets == {<<ADA, BTC>>}

\* the base asset, the quote asset, a third asset
FeeCoins == {ADA, BTC, BNB}

BinanceTxs ==
    {BinanceTx(d, m, t, a, p, tot, f, fc) :
        d \in Dates, m \in Markets, t \in {"BUY", "SELL"}, a \in PosDecimals,
        p \in PosDecimals, tot \in PosDecimals, f \in FeeDecimals, fc \in FeeCoins}

\* "DEK.PL", "DTLA.UK", "X.US", "DEK.", "DEK" and the empty symbol
Symbols ==
    {<<"D", "E", "K", ".", "P", "L">>, <<"D", "T", "L", "A", ".", "U", "K">>,
     <<"X", ".", "U", "S">>, <<"D", "E", "K", ".">>, <<"D", "E", "K">>, <<>>}

Ids == {<<"5", "1", "5">>}

XtbTxs ==
    {XtbBuySell(i, t, d, s, Dec(a, 0), p, c) :
        i \in Ids, t \in {"BUY", "SELL"}, d \in Dates, s \in Symbols,
        a \in 1..MaxCoef, p \in PosDecimals, c \in CashDecimals}
    \cup {XtbDepositWithdraw(i, t, d, c) :
        i \in Ids, t \in {"DEPOSIT", "WITHDRAW"}, d \in Dates, c \in CashDecimals}
    \cup {XtbDividendInterest(i, d, s, c) :
        i \in Ids, d \in Dates, s \in Symbols, c \in CashDecimals}
    \cup {XtbCosts(i, d, s, c) :
        i \in Ids, d \in Dates, s \in Symbols, c \in CashDecimals}

\* no record / no price map yet
NoTx == [kind |-> "None"]

NoPrices == [t \in {} |-> Zero]

(***************************************************************************)
(* The state machine: main() selects the exchange; one source record is    *)
(* converted by the exchange's rule.                                       *)
(***************************************************************************)
InitBinance ==
    /\ exchange = "binance"
    /\ btx \in BinanceTxs
    /\ xtx = NoTx
    /\ currency = "PLN"

InitXtb ==
    /\ exchange = "xtb"
    /\ btx = NoTx
    /\ xtx \in XtbTxs
    /\ currency \in Currency

Init ==
    /\ InitBinance \/ InitXtb
    /\ call = ""
    /\ pc = "start"
    /\ pln_prices = NoPrices
    /\ pln_rate = One
    /\ result = <<>>
    /\ error = ""
    /\ arg = <<>>
    /\ lookups = <<>>
    /\ output = <<>>
    /\ pos = 0

\* split_binance_tx_to_inwestomat_txs(btx, pln_prices), called with a price
\* map that holds both market tickers
SplitBinanceTx ==
    /\ pc = "start"
    /\ exchange = "binance"
    /\ \E prices \in [{btx.market[1], btx.market[2]} -> PosDecimals] :
        /\ pln_prices' = prices
        /\ result' = split_binance_tx_to_inwestomat_txs(btx, prices)
    /\ call' = "split_binance_tx_to_inwestomat_txs"
    /\ pc' = "returned"
    /\ UNCHANGED <<exchange, btx, xtx, currency, pln_rate, error, arg, lookups, output, pos>>

\* convert_binance_tx(btx, client), the lookup returning quote_asset_in_pln
ConvertBinanceTx ==
    /\ pc = "start"
    /\ exchange = "binance"
    /\ \E quote_asset_in_pln \in PosDecimals :
        /\ arg' = [reply |-> quote_asset_in_pln]
        /\ pln_prices' = find_pln_prices(quote_asset_in_pln, btx.market, btx.price)
        /\ result' = convert_binance_tx(btx, quote_asset_in_pln)
    /\ lookups' = find_pln_prices_calls(btx.market)
    /\ call' = "convert_binance_tx"
    /\ pc' = "returned"
    /\ UNCHANGED <<exchange, btx, xtx, currency, pln_rate, error, output, pos>>

\* convert_xtb_tx(tx, currency, get_pln_rate(currency, tx.time.date()))
ConvertXtbTx ==
    /\ pc = "start"
    /\ exchange = "xtb"
    /\ \E mid \in PosDecimals :
        LET rate == get_pln_rate(currency, mid)
            r == convert_xtb_tx(xtx, currency, rate)
        IN  /\ pln_rate' = rate
            /\ result' = r.value
            /\ error' = r.raised
            /\ pc' = IF r.raised = "" THEN "returned" ELSE "raised"
    /\ lookups' = get_pln_rate_requests(currency, DayOf(xtx.time))
    /\ call' = "convert_xtb_tx"
    /\ UNCHANGED <<exchange, btx, xtx, currency, pln_prices, arg, output, pos>>

Next == SplitBinanceTx \/ ConvertBinanceTx \/ ConvertXtbTx

Spec == Init /\ [][Next]_vars

(***************************************************************************)
(* Properties of the Binance rule                                          *)
(***************************************************************************)
\* a Binance conversion (either entry point) has returned its records
BinanceReturned == exchange = "binance" /\ pc = "returned"

\* the asset given up and the asset received, with their raw amounts
GiveTicker == IF btx.type = "BUY" THEN btx.market[2] ELSE btx.market[1]

TakeTicker == IF btx.type = "BUY" THEN btx.market[1] ELSE btx.market[2]

GiveRaw == IF btx.type = "BUY" THEN btx.total ELSE btx.amount

TakeRaw == IF btx.type = "BUY" THEN btx.amount ELSE btx.total

FeeInTakeAsset == btx.fee_coin = TakeTicker

PlnPair(ticker) == <<"C", "U", "R", "R", "E", "N", "C", "Y", ":">> \o ticker \o <<"P", "L", "N">>

\* the fields every Binance leg shares
BinanceLegFrame(tx) ==
    /\ tx.currency = "PLN"
    /\ tx.pln_rate = Dec(1, 0)
    /\ tx.nominal_price = Dec(1, 0)
    /\ tx.date = btx.date

\* C1: split_binance_tx_to_inwestomat_txs returns exactly two records, the
\* SELL leg first and the BUY leg second.  For BUY the SELL leg is the quote
\* ticker with raw amount total and the BUY leg the base ticker with raw
\* amount amount; for SELL the SELL leg is the base ticker with raw amount
\* amount and the BUY leg the quote ticker with raw amount total (the BUY
\* leg's emitted amount is its raw amount, less the fee when the fee coin is
\* the bought ticker).  Each leg has price = the PLN price of its own ticker,
\* total_pln = raw (pre-fee) amount x price, ticker 'CURRENCY:<ticker>PLN',
\* currency PLN, pln_rate 1, nominal_price 1 and the source timestamp.
C1_SplitLegs ==
    BinanceReturned =>
        /\ Len(result) = 2
        /\ result[1].type = "SELL"
        /\ result[2].type = "BUY"
        /\ result[1].ticker = PlnPair(GiveTicker)
        /\ result[2].ticker = PlnPair(TakeTicker)
        /\ result[1].amount = GiveRaw
        /\ NumEq(result[2].amount, IF FeeInTakeAsset THEN Sub(TakeRaw, btx.fee) ELSE TakeRaw)
        /\ result[1].price = pln_prices[GiveTicker]
        /\ result[2].price = pln_prices[TakeTicker]
        /\ NumEq(result[1].total_pln, Mul(GiveRaw, pln_prices[GiveTicker]))
        /\ NumEq(result[2].total_pln, Mul(TakeRaw, pln_prices[TakeTicker]))
        /\ BinanceLegFrame(result[1])
        /\ BinanceLegFrame(result[2])

\* a SELL split with an arbitrary price map whose two prices differ
C1_Witness ==
    /\ BinanceReturned
    /\ call = "split_binance_tx_to_inwestomat_txs"
    /\ btx.type = "SELL"
    /\ ~NumEq(pln_prices[btx.market[1]], pln_prices[btx.market[2]])
    /\ ~NumEq(btx.amount, btx.total)
    /\ result[1].ticker = PlnPair(ADA)
    /\ result[2].ticker = PlnPair(BTC)

\* the record's total is its amount at its unit price
TotalIsAmountTimesPrice == NumEq(btx.total, Mul(btx.amount, btx.price))

\* C2 as stated: for every BUY or SELL record (any amount, price, total, fee,
\* fee_coin) and every looked-up quote price, the two records produced by
\* convert_binance_tx have numerically equal total_pln.
C2_ValueConservation_AnyRecord ==
    (BinanceReturned /\ call = "convert_binance_tx") =>
        NumEq(result[1].total_pln, result[2].total_pln)

\* C2, amended: the two records produced by convert_binance_tx have
\* numerically equal total_pln for every record whose total equals
\* amount x price (any fee, fee_coin and looked-up quote price).
C2_ValueConservation ==
    (BinanceReturned /\ call = "convert_binance_tx" /\ TotalIsAmountTimesPrice) =>
        NumEq(result[1].total_pln, result[2].total_pln)

\* a consistent record (2 x 0.1 = 0.2) converted at a quote price other than 1
C2_Witness ==
    /\ BinanceReturned
    /\ call = "convert_binance_tx"
    /\ TotalIsAmountTimesPrice
    /\ ~NumEq(btx.amount, btx.total)
    /\ ~NumEq(pln_prices[btx.market[2]], Dec(1, 0))
    /\ btx.fee.c > 0
    /\ NumEq(result[1].total_pln, result[2].total_pln)

\* C3: if fee_coin is the bought ticker, the BUY leg's amount is the raw
\* amount minus the fee and its fee is fee x the bought ticker's PLN price,
\* while the SELL leg's amount is unadjusted and its fee is 0; in every
\* other case (fee_coin the given ticker or a third asset) the fee is 0 on
\* both legs and both amounts are the raw amounts.
C3_FeeRule ==
    BinanceReturned =>
        /\ NumEq(result[1].amount, GiveRaw)
        /\ NumEq(result[1].fee, Dec(0, 0))
        /\ FeeInTakeAsset =>
            /\ NumEq(result[2].amount, Sub(TakeRaw, btx.fee))
            /\ NumEq(result[2].fee, Mul(btx.fee, pln_prices[TakeTicker]))
        /\ ~FeeInTakeAsset =>
            /\ NumEq(result[2].amount, TakeRaw)
            /\ NumEq(result[2].fee, Dec(0, 0))

\* a fee charged in the bought asset, the two tickers priced differently
C3_Witness ==
    /\ BinanceReturned
    /\ FeeInTakeAsset
    /\ btx.fee.c > 0
    /\ ~NumEq(pln_prices[GiveTicker], pln_prices[TakeTicker])
    /\ result[2].fee.c > 0
    /\ ~NumEq(result[2].amount, TakeRaw)

\* a fee charged in a third asset leaves both legs untouched
C3_WitnessThirdAsset ==
    /\ BinanceReturned
    /\ btx.fee_coin = BNB
    /\ btx.fee.c > 0
    /\ result[2].fee = Dec(0, 0)

\* C4 as stated: when fee_coin is the bought ticker the fee is subtracted
\* before the leg is priced, total_pln = emitted BUY amount x BUY price.
C4_TotalOfReducedAmount ==
    (BinanceReturned /\ FeeInTakeAsset) =>
        NumEq(result[2].total_pln, Mul(result[2].amount, result[2].price))

\* C4, amended: when fee_coin is the bought ticker the leg is priced before
\* the fee is subtracted: the BUY leg's total_pln is the PLN value of the
\* emitted amount plus the fee, total_pln = (emitted amount + fee) x BUY price.
C4_TotalOfRawAmount ==
    (BinanceReturned /\ FeeInTakeAsset) =>
        NumEq(result[2].total_pln, Mul(Add(result[2].amount, btx.fee), result[2].price))

\* a non-zero fee in the bought asset: the priced amount is not the emitted one
C4_Witness ==
    /\ BinanceReturned
    /\ FeeInTakeAsset
    /\ btx.fee.c > 0
    /\ ~NumEq(result[2].total_pln, Mul(result[2].amount, result[2].price))

(***************************************************************************)
(* Properties of the XTB rule                                              *)
(***************************************************************************)
\* convert_xtb_tx has returned its records
XtbReturned == exchange = "xtb" /\ pc = "returned"

Gotowka == <<"G", "o", "t", "ó", "w", "k", "a">>

\* 'Waluty_<code>' of the settlement currency
Waluty ==
    <<"W", "a", "l", "u", "t", "y", "_">> \o
        (CASE currency = "USD" -> <<"U", "S", "D">>
           [] currency = "EUR" -> <<"E", "U", "R">>
           [] currency = "GBP" -> <<"G", "B", "P">>
           [] currency = "CHF" -> <<"C", "H", "F">>
           [] currency = "PLN" -> <<"P", "L", "N">>)

\* the type of the asset/cash leg of the source record
AssetLegType ==
    CASE xtx.kind = "XtbDividendInterest" -> "DIVIDEND_INTEREST"
      [] xtx.kind = "XtbCosts" -> "COSTS"
      [] OTHER -> xtx.type

\* C5: convert_xtb_tx returns, for each of the four variants and every cash
\* amount and rate, exactly one record (the asset/cash leg) when the
\* settlement currency is PLN, and otherwise exactly two records in the
\* order [asset/cash leg, currency leg].
C5_OneOrTwoRecords ==
    XtbReturned =>
        /\ result[1].type = AssetLegType
        /\ currency = "PLN" => Len(result) = 1
        /\ currency # "PLN" =>
            /\ Len(result) = 2
            /\ result[2].ticker = Waluty
            /\ result[2].type \in {"BUY", "SELL"}

\* a dividend on a PLN account: the asset leg alone
C5_Witness ==
    /\ XtbReturned
    /\ currency = "PLN"
    /\ xtx.kind = "XtbDividendInterest"
    /\ xtx.symbol # <<>>
    /\ Len(result) = 1
    /\ result[1].type = "DIVIDEND_INTEREST"

\* a deposit on a USD account: the cash leg, then the currency leg
C5_WitnessTwo ==
    /\ XtbReturned
    /\ currency = "USD"
    /\ xtx.kind = "XtbDepositWithdraw"
    /\ Len(result) = 2

\* C6 as stated: for every variant converted with a settlement currency
\* other than PLN, both records are denominated in the settlement currency,
\* both carry the resolved rate in pln_rate, and both have the same total_pln.
C6_BothInSettlementCurrency ==
    (XtbReturned /\ currency # "PLN") =>
        /\ \A i \in 1..2 : result[i].currency = currency /\ result[i].pln_rate = pln_rate
        /\ NumEq(result[1].total_pln, result[2].total_pln)

\* C6, amended: with a settlement currency other than PLN the currency leg is
\* always denominated in the settlement currency and carries the resolved
\* rate, and both records have the same total_pln; the asset/cash leg is
\* denominated in the settlement currency with the resolved rate for BuySell
\* and DividendInterest, in PLN with pln_rate 1 for DepositWithdraw, and in
\* PLN with the resolved rate for Costs.
C6_LegCurrencies ==
    (XtbReturned /\ currency # "PLN") =>
        /\ result[2].currency = currency
        /\ result[2].pln_rate = pln_rate
        /\ NumEq(result[1].total_pln, result[2].total_pln)
        /\ xtx.kind \in {"XtbBuySell", "XtbDividendInterest"} =>
            result[1].currency = currency /\ result[1].pln_rate = pln_rate
        /\ xtx.kind = "XtbDepositWithdraw" =>
            result[1].currency = "PLN" /\ result[1].pln_rate = Dec(1, 0)
        /\ xtx.kind = "XtbCosts" =>
            result[1].currency = "PLN" /\ result[1].pln_rate = pln_rate

\* a deposit on a EUR account at a rate other than 1
C6_Witness ==
    /\ XtbReturned
    /\ currency = "EUR"
    /\ xtx.kind = "XtbDepositWithdraw"
    /\ ~NumEq(pln_rate, Dec(1, 0))
    /\ result[1].currency = "PLN"
    /\ result[2].currency = "EUR"

\* C7: the asset/cash leg follows the per-variant table: BuySell -> converted
\* security ticker, type as given, amount = asset amount, price = trade
\* price; DepositWithdraw -> ticker 'Gotówka', type as given, amount 1,
\* price 1; DividendInterest with a symbol -> converted security ticker, type
\* DIVIDEND_INTEREST, amount 1, price 1; Costs with a symbol -> converted
\* security ticker, type COSTS, amount 1, price 1.  In every case fee 0,
\* nominal_price 1, date = the source time and comment = 'ID:' + source id.
C7_AssetLegTable ==
    XtbReturned =>
        /\ xtx.kind = "XtbBuySell" =>
            /\ result[1].ticker = convert_xtb_ticker(xtx.symbol).value
            /\ result[1].type = xtx.type
            /\ result[1].amount = xtx.asset_amount
            /\ result[1].price = xtx.price
        /\ xtx.kind = "XtbDepositWithdraw" =>
            /\ result[1].ticker = Gotowka
            /\ result[1].type = xtx.type
            /\ result[1].amount = Dec(1, 0)
            /\ result[1].price = Dec(1, 0)
        /\ (xtx.kind = "XtbDividendInterest" /\ xtx.symbol # <<>>) =>
            /\ result[1].ticker = convert_xtb_ticker(xtx.symbol).value
            /\ result[1].type = "DIVIDEND_INTEREST"
            /\ result[1].amount = Dec(1, 0)
            /\ result[1].price = Dec(1, 0)
        /\ (xtx.kind = "XtbCosts" /\ xtx.symbol # <<>>) =>
            /\ result[1].ticker = convert_xtb_ticker(xtx.symbol).value
            /\ result[1].type = "COSTS"
            /\ result[1].amount = Dec(1, 0)
            /\ result[1].price = Dec(1, 0)
        /\ result[1].fee = Dec(0, 0)
        /\ result[1].nominal_price = Dec(1, 0)
        /\ result[1].date = xtx.time
        /\ result[1].comment = <<"I", "D", ":">> \o xtx.id

\* a withdrawal of an amount other than 1, and a dividend of a London security
C7_Witness ==
    /\ XtbReturned
    /\ xtx.kind = "XtbDepositWithdraw"
    /\ xtx.type = "WITHDRAW"
    /\ ~NumEq(Abs(xtx.currency_amount), Dec(1, 0))
    /\ result[1].ticker = Gotowka
    /\ result[1].amount = Dec(1, 0)

C7_WitnessSecurity ==
    /\ XtbReturned
    /\ xtx.kind = "XtbCosts"
    /\ result[1].ticker = <<"L", "O", "N", ":", "D", "T", "L", "A">>

\* C8 as stated: for DividendInterest and Costs records whose symbol is
\* empty the asset/cash leg's ticker is 'Gotówka' for every settlement
\* currency, PLN or not.
C8_EmptySymbolIsGotowka ==
    (XtbReturned /\ xtx.kind \in {"XtbDividendInterest", "XtbCosts"} /\ xtx.symbol = <<>>) =>
        result[1].ticker = Gotowka

\* C8, amended: for a Costs record whose symbol is empty the asset/cash
\* leg's ticker is 'Gotówka' for every settlement currency; for a
\* DividendInterest record whose symbol is empty it is the cash ticker of the
\* settlement currency: 'Gotówka' for PLN, 'Waluty_<code>' otherwise.
C8_EmptySymbolTicker ==
    (XtbReturned /\ xtx.kind \in {"XtbDividendInterest", "XtbCosts"} /\ xtx.symbol = <<>>) =>
        result[1].ticker =
            IF xtx.kind = "XtbDividendInterest" /\ currency # "PLN" THEN Waluty ELSE Gotowka

\* interest on a EUR account
C8_Witness ==
    /\ XtbReturned
    /\ xtx.kind = "XtbDividendInterest"
    /\ xtx.symbol = <<>>
    /\ currency = "EUR"
    /\ result[1].ticker = <<"W", "a", "l", "u", "t", "y", "_", "E", "U", "R">>

\* |x| of a Decimal, spelled out
Magnitude(a) == IF a.c < 0 THEN Dec(0 - a.c, a.e) ELSE a

\* C9: for BuySell, DepositWithdraw and Costs records, with any sign of the
\* cash amount and any settlement currency, every emitted record has
\* total_pln = abs(cash amount) x rate, so total_pln is never negative when
\* the rate is positive.
C9_TotalIsAbsTimesRate ==
    (XtbReturned /\ xtx.kind \in {"XtbBuySell", "XtbDepositWithdraw", "XtbCosts"}) =>
        \A i \in 1..Len(result) :
            /\ NumEq(result[i].total_pln, Mul(Magnitude(xtx.currency_amount), pln_rate))
            /\ pln_rate.c > 0 => result[i].total_pln.c >= 0

\* a negative cash amount on a foreign-currency account
C9_Witness ==
    /\ XtbReturned
    /\ xtx.kind = "XtbCosts"
    /\ xtx.currency_amount.c < 0
    /\ currency = "USD"
    /\ ~NumEq(pln_rate, Dec(1, 0))
    /\ Len(result) = 2
    /\ result[1].total_pln.c > 0

\* C10 as stated: for DividendInterest records the asset/cash leg's
\* total_pln is the signed cash amount x rate, for every cash amount
\* including negative ones.
C10_TotalIsSignedAmountTimesRate ==
    (XtbReturned /\ xtx.kind = "XtbDividendInterest") =>
        NumEq(result[1].total_pln, Mul(xtx.currency_amount, pln_rate))

\* C10, amended: for DividendInterest records the asset/cash leg's total_pln
\* is abs(cash amount) x rate: the signed cash amount x rate when the cash
\* amount is not negative, and its negation when it is.
C10_TotalIsAbsAmountTimesRate ==
    (XtbReturned /\ xtx.kind = "XtbDividendInterest") =>
        /\ xtx.currency_amount.c >= 0 =>
            NumEq(result[1].total_pln, Mul(xtx.currency_amount, pln_rate))
        /\ xtx.currency_amount.c < 0 =>
            NumEq(result[1].total_pln, Mul(Dec(0 - xtx.currency_amount.c, xtx.currency_amount.e), pln_rate))

\* a negative dividend amount
C10_Witness ==
    /\ XtbReturned
    /\ xtx.kind = "XtbDividendInterest"
    /\ xtx.currency_amount.c < 0
    /\ result[1].total_pln.c > 0

\* C11: when the settlement currency is not PLN the currency leg mirrors the
\* asset/cash leg: ticker 'Waluty_<code>' of the settlement currency, amount
\* = abs(cash amount), price 1, fee 0, the same date, total_pln and 'ID:<id>'
\* comment as the asset leg, and the opposite cash movement as its type: SELL
\* for a BuySell BUY, BUY for a BuySell SELL, BUY for DEPOSIT, SELL for
\* WITHDRAW, BUY for DividendInterest, SELL for Costs.
C11_CurrencyLegMirror ==
    (XtbReturned /\ currency # "PLN") =>
        /\ result[2].ticker = Waluty
        /\ result[2].amount = Magnitude(xtx.currency_amount)
        /\ result[2].price = Dec(1, 0)
        /\ result[2].fee = Dec(0, 0)
        /\ result[2].date = result[1].date
        /\ result[2].total_pln = result[1].total_pln
        /\ result[2].comment = result[1].comment
        /\ result[2].comment = <<"I", "D", ":">> \o xtx.id
        /\ result[2].type =
            CASE xtx.kind = "XtbBuySell" -> IF xtx.type = "BUY" THEN "SELL" ELSE "BUY"
              [] xtx.kind = "XtbDepositWithdraw" -> IF xtx.type = "DEPOSIT" THEN "BUY" ELSE "SELL"
              [] xtx.kind = "XtbDividendInterest" -> "BUY"
              [] xtx.kind = "XtbCosts" -> "SELL"

\* the purchase of a security on a GBP account, paid with a negative cash amount
C11_Witness ==
    /\ XtbReturned
    /\ currency = "GBP"
    /\ xtx.kind = "XtbBuySell"
    /\ xtx.type = "BUY"
    /\ xtx.currency_amount.c < 0
    /\ result[2].type = "SELL"
    /\ result[2].ticker = <<"W", "a", "l", "u", "t", "y", "_", "G", "B", "P">>
    /\ result[2].amount.c > 0

\* convert_xtb_tx has returned or raised
XtbCalled == exchange = "xtb" /\ pc \in {"returned", "raised"}

\* the source record is one whose symbol convert_xtb_tx converts
SymbolConverted ==
    \/ xtx.kind = "XtbBuySell"
    \/ xtx.kind \in {"XtbDividendInterest", "XtbCosts"} /\ xtx.symbol # <<>>

\* symbol is code + "." + country, code holding no "."
IsCodeDotCountry(symbol, code, country) ==
    /\ symbol = code \o <<".">> \o country
    /\ \A i \in 1..Len(code) : code[i] # "."

\* the code of a symbol "code.<country>", when it has that form
CodeOf(symbol, country) == SubSeq(symbol, 1, Len(symbol) - Len(country) - 1)

HasCountry(symbol, country) ==
    /\ Len(symbol) > Len(country)
    /\ IsCodeDotCountry(symbol, CodeOf(symbol, country), country)

\* C12: convert_xtb_ticker maps 'code.PL' to 'WSE:code' and 'code.UK' to
\* 'LON:code'; for every other country code (an empty one too) and for a
\* symbol with no '.' it raises an error instead of returning a default
\* ticker, so convert_xtb_tx emits no record for such a source record.
C12_TickerConversion ==
    (XtbCalled /\ SymbolConverted) =>
        IF HasCountry(xtx.symbol, <<"P", "L">>)
        THEN /\ pc = "returned"
             /\ result[1].ticker = <<"W", "S", "E", ":">> \o CodeOf(xtx.symbol, <<"P", "L">>)
        ELSE IF HasCountry(xtx.symbol, <<"U", "K">>)
        THEN /\ pc = "returned"
             /\ result[1].ticker = <<"L", "O", "N", ":">> \o CodeOf(xtx.symbol, <<"U", "K">>)
        ELSE /\ pc = "raised"
             /\ error # ""
             /\ result = <<>>

\* a dividend of "X.US": an unknown country, no record
C12_Witness ==
    /\ XtbCalled
    /\ xtx.kind = "XtbDividendInterest"
    /\ xtx.symbol = <<"X", ".", "U", "S">>
    /\ pc = "raised"
    /\ error = "ValueError"
    /\ result = <<>>

\* "DEK." has an empty country code, "DEK" no separator
C12_WitnessEmptyCountry ==
    /\ XtbCalled
    /\ SymbolConverted
    /\ xtx.symbol = <<"D", "E", "K", ".">>
    /\ error = "ValueError"

C12_WitnessNoSeparator ==
    /\ XtbCalled
    /\ SymbolConverted
    /\ xtx.symbol = <<"D", "E", "K">>
    /\ pc = "raised"
    /\ result = <<>>

\* a conversion of either exchange has returned its records
AnyReturned == pc = "returned" /\ exchange \in {"binance", "xtb"}

\* C14 as stated: every record emitted by either rule has nominal_price 1,
\* and has pln_rate exactly 1 whenever its currency field is PLN.
C14_RateOneWhenPln ==
    AnyReturned =>
        \A i \in 1..Len(result) :
            /\ result[i].nominal_price = Dec(1, 0)
            /\ result[i].currency = "PLN" => NumEq(result[i].pln_rate, Dec(1, 0))

\* C14, amended: every record emitted by either rule has nominal_price 1, and
\* has pln_rate exactly 1 whenever its currency field is PLN, except the
\* asset/cash leg of a Costs record of an account that is not in PLN: its
\* currency field is PLN and its pln_rate is the resolved rate.
C14_RateOneWhenPlnButCosts ==
    AnyReturned =>
        \A i \in 1..Len(result) :
            /\ result[i].nominal_price = Dec(1, 0)
            /\ result[i].currency = "PLN" =>
                IF exchange = "xtb" /\ xtx.kind = "XtbCosts" /\ currency # "PLN" /\ i = 1
                THEN result[i].pln_rate = pln_rate
                ELSE NumEq(result[i].pln_rate, Dec(1, 0))

\* a deposit on a CHF account at a rate other than 1: the cash leg is in PLN at rate 1
C14_Witness ==
    /\ XtbReturned
    /\ currency = "CHF"
    /\ xtx.kind = "XtbDepositWithdraw"
    /\ ~NumEq(pln_rate, Dec(1, 0))
    /\ result[1].currency = "PLN"
    /\ result[1].pln_rate = Dec(1, 0)
    /\ result[1].nominal_price = Dec(1, 0)

\* C15: find_pln_prices issues exactly one lookup, for the pair (quote asset,
\* 'PLN'), and returns a map with exactly the two market tickers: quote asset
\* -> the looked-up price, base asset -> trade unit price x the looked-up
\* price; it never looks up the base asset.
C15_OneLookup ==
    (BinanceReturned /\ call = "convert_binance_tx") =>
        /\ Len(lookups) = 1
        /\ lookups[1] = <<btx.market[2], <<"P", "L", "N">>>>
        /\ \A i \in 1..Len(lookups) : lookups[i][1] # btx.market[1]
        /\ DOMAIN pln_prices = {btx.market[1], btx.market[2]}
        /\ pln_prices[btx.market[2]] = arg.reply
        /\ NumEq(pln_prices[btx.market[1]], Mul(btx.price, arg.reply))

\* ADA/BTC at 0.2 BTC, BTC looked up at 2 PLN
C15_Witness ==
    /\ BinanceReturned
    /\ call = "convert_binance_tx"
    /\ lookups = <<<<BTC, <<"P", "L", "N">>>>>>
    /\ btx.price = Dec(2, 0 - 1)
    /\ arg.reply = Dec(2, 0)
    /\ NumEq(pln_prices[ADA], Dec(4, 0 - 1))

(***************************************************************************)
(* identify_binance_market_assets: the market string of a Binance row is   *)
(* cut into (base asset, quote asset)                                      *)
(***************************************************************************)
BINANCE_QUOTE_ASSETS ==
    <<<<"U", "S", "D", "T">>, <<"B", "T", "C">>, <<"T", "R", "Y">>,
      <<"F", "D", "U", "S", "D">>, <<"U", "S", "D", "C">>, <<"E", "T", "H">>,
      <<"B", "N", "B">>, <<"E", "U", "R">>, <<"T", "U", "S", "D">>, <<"B", "R", "L">>,
      <<"J", "P", "Y">>, <<"D", "A", "I">>, <<"U", "A", "H">>, <<"P", "L", "N">>,
      <<"R", "O", "N">>, <<"Z", "A", "R">>, <<"M", "X", "N">>, <<"A", "R", "S">>,
      <<"X", "R", "P">>, <<"T", "R", "X">>, <<"D", "O", "G", "E">>, <<"C", "Z", "K">>,
      <<"I", "D", "R", "T">>>>

\* str.endswith
EndsWith(s, suffix) ==
    /\ Len(s) >= Len(suffix)
    /\ SubSeq(s, Len(s) - Len(suffix) + 1, Len(s)) = suffix

\* the "in" operator of two strings
Contains(s, part) ==
    \E i \in 0..(Len(s) - Len(part)) : SubSeq(s, i + 1, i + Len(part)) = part

\* str.removesuffix
RemoveSuffix(s, suffix) ==
    IF EndsWith(s, suffix) THEN SubSeq(s, 1, Len(s) - Len(suffix)) ELSE s

\* identify_binance_market_assets with the quote asset looked for anywhere in the string
identify_binance_market_assets_contained(market) ==
    LET matches == {i \in DOMAIN BINANCE_QUOTE_ASSETS : Contains(market, BINANCE_QUOTE_ASSETS[i])}
    IN  IF matches = {} THEN Raised("NotImplementedError")
        ELSE LET first == CHOOSE i \in matches : \A j \in matches : i <= j
                 quote_asset == BINANCE_QUOTE_ASSETS[first]
             IN  Returned(<<RemoveSuffix(market, quote_asset), quote_asset>>)

\* the loop returns at the first entry, in the order of the tuple, that ends the string
identify_binance_market_assets(market) ==
    LET matches == {i \in DOMAIN BINANCE_QUOTE_ASSETS : EndsWith(market, BINANCE_QUOTE_ASSETS[i])}
    IN  IF matches = {} THEN Raised("NotImplementedError")
        ELSE LET first == CHOOSE i \in matches : \A j \in matches : i <= j
                 quote_asset == BINANCE_QUOTE_ASSETS[first]
             IN  Returned(<<RemoveSuffix(market, quote_asset), quote_asset>>)

\* base assets: none, two that are not quote assets, three that are
BaseAssets ==
    {<<>>, ADA, <<"1", "I", "N", "C", "H">>, BTC, <<"U", "S", "D", "T">>, <<"T", "U", "S", "D">>}

\* strings that end with no known quote asset
UnknownMarkets ==
    {<<>>, <<"A", "D", "A">>, <<"A", "D", "A", "U", "S", "D">>, <<"B", "T", "C", "X">>,
     <<"a", "d", "a", "b", "t", "c">>, <<"U", "S", "D", "T", "A", "D", "A">>}

MarketStrings ==
    {base \o BINANCE_QUOTE_ASSETS[i] : base \in BaseAssets, i \in DOMAIN BINANCE_QUOTE_ASSETS}
        \cup UnknownMarkets

\* the state before a call of one function with the input drawn from inputs
InitCall(function, inputs) ==
    /\ exchange = function
    /\ arg \in inputs
    /\ btx = NoTx
    /\ xtx = NoTx
    /\ currency = "PLN"
    /\ call = ""
    /\ pc = "start"
    /\ pln_prices = NoPrices
    /\ pln_rate = One
    /\ result = <<>>
    /\ error = ""
    /\ lookups = <<>>
    /\ output = <<>>
    /\ pos = 0

InitMarket == InitCall("identify_binance_market_assets", MarketStrings)

IdentifyMarket ==
    /\ pc = "start"
    /\ exchange = "identify_binance_market_assets"
    /\ LET r == identify_binance_market_assets(arg)
       IN  /\ result' = r.value
           /\ error' = r.raised
           /\ pc' = IF r.raised = "" THEN "returned" ELSE "raised"
    /\ call' = "identify_binance_market_assets"
    /\ UNCHANGED <<exchange, btx, xtx, currency, pln_prices, pln_rate, arg, lookups, output, pos>>

SpecMarket == InitMarket /\ [][IdentifyMarket]_vars

\* the known quote assets that end the string
MatchingQuoteAssets(market) ==
    {BINANCE_QUOTE_ASSETS[i] : i \in {j \in DOMAIN BINANCE_QUOTE_ASSETS :
                                        EndsWith(market, BINANCE_QUOTE_ASSETS[j])}}

MarketCalled ==
    exchange = "identify_binance_market_assets" /\ pc \in {"returned", "raised"}

\* C20: identify_binance_market_assets splits the string at the first entry
\* of BINANCE_QUOTE_ASSETS, in the order of the list, that is a suffix of it,
\* and returns (string without the suffix, suffix), so base + quote is the
\* input; the chosen entry is also the longest known quote asset that ends
\* the string, and no second known quote asset ends it; a string that ends
\* with no known quote asset raises an error and yields no pair.
C20_SplitAtFirstSuffix ==
    MarketCalled =>
        IF MatchingQuoteAssets(arg) = {}
        THEN pc = "raised" /\ error = "NotImplementedError" /\ result = <<>>
        ELSE /\ pc = "returned"
             /\ Len(result) = 2
             /\ result[1] \o result[2] = arg
             /\ \E i \in DOMAIN BINANCE_QUOTE_ASSETS :
                 /\ result[2] = BINANCE_QUOTE_ASSETS[i]
                 /\ EndsWith(arg, BINANCE_QUOTE_ASSETS[i])
                 /\ \A j \in 1..(i - 1) : ~EndsWith(arg, BINANCE_QUOTE_ASSETS[j])
             /\ \A q \in MatchingQuoteAssets(arg) : Len(q) <= Len(result[2])
             /\ MatchingQuoteAssets(arg) = {result[2]}

\* "USDTTRY": USDT comes first in the list and is in the string, TRY ends it
C20_Witness ==
    /\ MarketCalled
    /\ arg = <<"U", "S", "D", "T", "T", "R", "Y">>
    /\ result = <<<<"U", "S", "D", "T">>, <<"T", "R", "Y">>>>

\* "ADAUSD" ends with no known quote asset
C20_WitnessUnknown ==
    /\ MarketCalled
    /\ arg = <<"A", "D", "A", "U", "S", "D">>
    /\ pc = "raised"
    /\ result = <<>>

(***************************************************************************)
(* _format_number: a Decimal is written as text.  Here a Decimal is the    *)
(* triple of Decimal.as_tuple(): sign (1: negative), the digits of the     *)
(* coefficient, the exponent; text is a sequence of characters.            *)
(***************************************************************************)
\* the precision of the decimal context num.normalize() rounds to
prec == 28

DecimalTuple(sign, digits, exponent) ==
    [sign |-> sign, digits |-> digits, exponent |-> exponent]

Repeat(x, n) == [i \in 1..n |-> x]

IsZero(d) == \A i \in DOMAIN d.digits : d.digits[i] = 0

RECURSIVE Increment(_)
\* the coefficient plus one
Increment(digits) ==
    IF digits = <<>> THEN <<1>>
    ELSE IF digits[Len(digits)] < 9 THEN [digits EXCEPT ![Len(digits)] = @ + 1]
    ELSE Increment(SubSeq(digits, 1, Len(digits) - 1)) \o <<0>>

\* ROUND_HALF_EVEN, the rounding of the default context
RoundsUp(kept, rest) ==
    \/ rest[1] > 5
    \/ rest[1] = 5 /\ \E i \in 2..Len(rest) : rest[i] # 0
    \/ rest[1] = 5 /\ (\A i \in 2..Len(rest) : rest[i] = 0) /\ kept[Len(kept)] % 2 = 1

\* Decimal._fix: a coefficient of more than prec digits is rounded to prec digits
Fix(d) ==
    IF Len(d.digits) <= prec THEN d
    ELSE LET kept == SubSeq(d.digits, 1, prec)
             rest == SubSeq(d.digits, prec + 1, Len(d.digits))
             rounded == IF RoundsUp(kept, rest) THEN Increment(kept) ELSE kept
             exp == d.exponent + Len(rest)
         IN  IF Len(rounded) > prec
             THEN DecimalTuple(d.sign, SubSeq(rounded, 1, prec), exp + 1)
             ELSE DecimalTuple(d.sign, rounded, exp)

\* the number of zeros that end a coefficient that is not zero
TrailingZeros(digits) ==
    CHOOSE n \in 0..(Len(digits) - 1) :
        /\ \A i \in (Len(digits) - n + 1)..Len(digits) : digits[i] = 0
        /\ digits[Len(digits) - n] # 0

\* Decimal.normalize without the rounding to the context's precision
normalize_exact(d) ==
    IF IsZero(d) THEN DecimalTuple(d.sign, <<0>>, 0)
    ELSE LET n == TrailingZeros(d.digits)
         IN  DecimalTuple(d.sign, SubSeq(d.digits, 1, Len(d.digits) - n), d.exponent + n)

\* Decimal.normalize: round to the context, then strip the trailing zeros; zero is 0e0
normalize(d) == normalize_exact(Fix(d))

DigitChars == <<"0", "1", "2", "3", "4", "5", "6", "7", "8", "9">>

Chars(digits) == [i \in 1..Len(digits) |-> DigitChars[digits[i] + 1]]

\* format(d, "f"): no exponent, the point placed by the exponent
format_f(d) ==
    LET int == Chars(d.digits)
        dotplace == d.exponent + Len(int)
        intpart == IF dotplace < 0 THEN <<"0">>
                   ELSE IF dotplace > Len(int) THEN int \o Repeat("0", dotplace - Len(int))
                   ELSE IF dotplace = 0 THEN <<"0">>
                   ELSE SubSeq(int, 1, dotplace)
        fracpart == IF dotplace < 0 THEN Repeat("0", 0 - dotplace) \o int
                    ELSE IF dotplace > Len(int) THEN <<>>
                    ELSE SubSeq(int, dotplace + 1, Len(int))
    IN  (IF d.sign = 1 THEN <<"-">> ELSE <<>>)
            \o intpart
            \o (IF fracpart = <<>> THEN <<>> ELSE <<".">> \o fracpart)

\* str.replace for one character
Replace(s, old, new) == [i \in 1..Len(s) |-> IF s[i] = old THEN new ELSE s[i]]

\* format(num.normalize(), "f").replace(".", ",")
_format_number(num) == Replace(format_f(normalize(num)), ".", ",")

CharDigit(ch) == CHOOSE n \in 0..9 : DigitChars[n + 1] = ch

\* str(int(digits)): the leading zeros dropped
StripLeadingZeros(digits) ==
    IF \A i \in DOMAIN digits : digits[i] = 0 THEN <<0>>
    ELSE LET n == CHOOSE k \in 0..(Len(digits) - 1) :
                      /\ \A i \in 1..k : digits[i] = 0
                      /\ digits[k + 1] # 0
         IN  SubSeq(digits, n + 1, Len(digits))

\* Decimal(text) for a text of the form [-]digits[.digits]
ParseDecimal(text) ==
    LET negative == text # <<>> /\ text[1] = "-"
        body == IF negative THEN Tail(text) ELSE text
        dots == {i \in 1..Len(body) : body[i] = "."}
        dot == IF dots = {} THEN Len(body) + 1 ELSE CHOOSE i \in dots : TRUE
        intpart == SubSeq(body, 1, dot - 1)
        fracpart == SubSeq(body, dot + 1, Len(body))
        all == intpart \o fracpart
    IN  DecimalTuple(IF negative THEN 1 ELSE 0,
                     StripLeadingZeros([i \in 1..Len(all) |-> CharDigit(all[i])]),
                     0 - Len(fracpart))

\* Decimal.__eq__: equality of the values, exact
DecimalEq(a, b) ==
    \/ IsZero(a) /\ IsZero(b)
    \/ ~IsZero(a) /\ ~IsZero(b) /\ normalize_exact(a) = normalize_exact(b)

\* coefficients of 1, 2, 3, prec and prec + 1 digits
Coefficients ==
    {<<0>>, <<1>>, <<7>>, <<1, 0>>, <<2, 5>>, <<1, 0, 0>>, <<2, 5, 0>>, <<1, 0, 5>>,
     <<1>> \o Repeat(0, prec - 2) \o <<1>>,
     <<1>> \o Repeat(0, prec - 1) \o <<1>>,
     <<1>> \o Repeat(0, prec - 2) \o <<1, 0>>,
     Repeat(9, prec + 1)}

DecimalExponents == {0 - prec, 0 - 3, 0 - 2, 0 - 1, 0, 1, 2}

DecimalTuples ==
    {DecimalTuple(s, ds, e) : s \in {0, 1}, ds \in Coefficients, e \in DecimalExponents}

InitFormat == InitCall("_format_number", DecimalTuples)

FormatNumber ==
    /\ pc = "start"
    /\ exchange = "_format_number"
    /\ result' = _format_number(arg)
    /\ pc' = "returned"
    /\ call' = "_format_number"
    /\ UNCHANGED <<exchange, btx, xtx, currency, pln_prices, pln_rate, error, arg, lookups,
                   output, pos>>

SpecFormat == InitFormat /\ [][FormatNumber]_vars

FormatReturned == exchange = "_format_number" /\ pc = "returned"

\* no exponent, a comma and no period, no zero at the end of the fraction
MinimalDecimalForm(text) ==
    /\ \A i \in 1..Len(text) : text[i] \in {"0", "1", "2", "3", "4", "5", "6", "7", "8", "9", ",", "-"}
    /\ Cardinality({i \in 1..Len(text) : text[i] = ","}) <= 1
    /\ (\E i \in 1..Len(text) : text[i] = ",") =>
           text[Len(text)] \notin {"0", ","}

\* C18: for every decimal value of a record field, _format_number renders it in
\* minimal decimal form (no exponent, no trailing fractional zeros, comma as
\* separator), and replacing the comma by a period and parsing the text again
\* gives a decimal exactly equal to the original value.
C18_RoundTrip ==
    FormatReturned =>
        /\ MinimalDecimalForm(result)
        /\ DecimalEq(ParseDecimal(Replace(result, ",", ".")), arg)

\* the same for the values whose coefficient, trailing zeros aside, has at
\* most prec digits
C18_RoundTripWithinPrecision ==
    (FormatReturned /\ Len(normalize_exact(arg).digits) <= prec) =>
        /\ MinimalDecimalForm(result)
        /\ DecimalEq(ParseDecimal(Replace(result, ",", ".")), arg)

\* 2.50 is written "2,5"
C18_WitnessWithinPrecision ==
    /\ FormatReturned
    /\ arg = DecimalTuple(0, <<2, 5, 0>>, 0 - 2)
    /\ result = <<"2", ",", "5">>

\* a value of prec + 1 significant digits is written as "1"
C18_WitnessRounded ==
    /\ FormatReturned
    /\ arg = DecimalTuple(0, <<1>> \o Repeat(0, prec - 1) \o <<1>>, 0 - prec)
    /\ result = <<"1">>

(***************************************************************************)
(* get_price: the price of a market at one instant, from the 1-second      *)
(* klines of the exchange.  A datetime is its wall-clock time in seconds,  *)
(* its tzinfo and its microsecond.                                         *)
(***************************************************************************)
DateTime(wall, tzinfo, microsecond) ==
    [wall |-> wall, tzinfo |-> tzinfo, microsecond |-> microsecond]

\* the offset of a tzinfo from UTC, in seconds
UtcOffset(tzinfo) == IF tzinfo = "+02:00" THEN 2 * 3600 ELSE 0

\* datetime.timestamp() of a datetime that has a tzinfo, microsecond aside
Timestamp(date) == date.wall - UtcOffset(date.tzinfo)

KLineValue_CLOSE == 4

\* the calls of client.get_historical_klines with the microsecond not asserted
get_price_lookups_unchecked(date, market) ==
    IF date.tzinfo = "None" THEN <<>>
    ELSE LET start == Timestamp(date) * 1000 + (date.microsecond \div 1000)
         IN  <<[symbol |-> market[1] \o market[2], interval |-> "1s",
                start |-> start, end |-> start + 1]>>

\* the calls of client.get_historical_klines made by get_price(client, date, market)
get_price_lookups(date, market) ==
    IF date.tzinfo = "None" \/ date.microsecond # 0 THEN <<>>
    ELSE LET start == Timestamp(date) * 1000
         IN  <<[symbol |-> market[1] \o market[2], interval |-> "1s",
                start |-> start, end |-> start + 1]>>

\* get_price(client, date, market), klines being what the client returns
get_price(date, market, klines) ==
    IF date.tzinfo = "None" THEN Raised("AssertionError")
    ELSE IF date.microsecond # 0 THEN Raised("AssertionError")
    ELSE IF klines = <<>> THEN Raised("IndexError")
    ELSE Returned(ParseDecimal(klines[1][KLineValue_CLOSE + 1]))

\* one row of the klines reply: 12 values, the prices as text
KLine(open_time, open, close) ==
    <<open_time, open, open, open, close, <<"0">>, open_time + 999, <<"0">>, 0, <<"0">>,
      <<"0">>, <<"0">>>>

KLineReplies ==
    {<<>>,
     <<KLine(0, <<"2", ".", "0">>, <<"2", ".", "5", "0">>)>>,
     <<KLine(0, <<"7">>, <<"7">>), KLine(1000, <<"7">>, <<"8">>)>>}

\* midnight, two hours and a later second of the first day
WallClocks == {0, 7200, 10000}

TzInfos == {"None", "UTC", "+02:00"}

Microseconds == {0, 1, 999999}

GetPriceCalls ==
    {[date |-> DateTime(w, tz, us), market |-> <<asset, PLN>>, klines |-> k] :
        w \in WallClocks, tz \in TzInfos, us \in Microseconds, asset \in {ADA, BTC},
        k \in KLineReplies}

InitGetPrice == InitCall("get_price", GetPriceCalls)

GetPrice ==
    /\ pc = "start"
    /\ exchange = "get_price"
    /\ LET r == get_price(arg.date, arg.market, arg.klines)
       IN  /\ result' = r.value
           /\ error' = r.raised
           /\ pc' = IF r.raised = "" THEN "returned" ELSE "raised"
    /\ lookups' = get_price_lookups(arg.date, arg.market)
    /\ call' = "get_price"
    /\ UNCHANGED <<exchange, btx, xtx, currency, pln_prices, pln_rate, arg, output, pos>>

SpecGetPrice == InitGetPrice /\ [][GetPrice]_vars

GetPriceCalled == exchange = "get_price" /\ pc \in {"returned", "raised"}

\* C16 as stated: for every timestamp that carries no timezone, is not UTC, or
\* has a non-zero sub-second component, get_price fails and the
\* historical-price service is not called.
C16_FailsUnlessUtcSecond ==
    (GetPriceCalled /\ (arg.date.tzinfo # "UTC" \/ arg.date.microsecond # 0)) =>
        /\ pc = "raised"
        /\ lookups = <<>>

\* C16, amended: for every timestamp that carries no timezone or has a
\* non-zero sub-second component get_price fails with an assertion error and
\* the historical-price service is not called; a timestamp with a timezone
\* and a zero sub-second component passes whether or not the timezone is UTC,
\* and the service is called once, for the millisecond of its instant.
C16_FailsUnlessAwareSecond ==
    GetPriceCalled =>
        IF arg.date.tzinfo = "None" \/ arg.date.microsecond # 0
        THEN /\ pc = "raised"
             /\ error = "AssertionError"
             /\ result = <<>>
             /\ lookups = <<>>
        ELSE /\ Len(lookups) = 1
             /\ lookups[1].symbol = arg.market[1] \o arg.market[2]
             /\ lookups[1].start = (arg.date.wall - UtcOffset(arg.date.tzinfo)) * 1000
             /\ lookups[1].end = lookups[1].start + 1

\* 02:00:00+02:00 is looked up as the instant 00:00:00 UTC and priced
C16_Witness ==
    /\ GetPriceCalled
    /\ arg.date = DateTime(7200, "+02:00", 0)
    /\ pc = "returned"
    /\ lookups[1].start = 0
    /\ result = DecimalTuple(0, <<2, 5, 0>>, 0 - 2)

\* a UTC timestamp with one microsecond fails before the lookup
C16_WitnessSubSecond ==
    /\ GetPriceCalled
    /\ arg.date = DateTime(7200, "UTC", 1)
    /\ pc = "raised"
    /\ lookups = <<>>

\* a timestamp with no timezone fails before the lookup
C16_WitnessNaive ==
    /\ GetPriceCalled
    /\ arg.date = DateTime(0, "None", 0)
    /\ error = "AssertionError"
    /\ lookups = <<>>

(***************************************************************************)
(* get_pln_rate: the mid rate of a currency from the NBP table A.  A date  *)
(* is a day number; published maps the days on which NBP published a rate *)
(* of the currency to that rate.                                           *)
(***************************************************************************)
RECURSIVE Ascending(_)
\* the days of a set, earliest first
Ascending(days) ==
    IF days = {} THEN <<>>
    ELSE LET first == CHOOSE d \in days : \A other \in days : d <= other
         IN  <<first>> \o Ascending(days \ {first})

\* data["rates"] of the reply to rates/a/{currency}/{start}/{stop}: the rates
\* published from start to stop, earliest first
NbpRates(published, start, stop) ==
    LET days == Ascending({d \in DOMAIN published : start <= d /\ d <= stop})
    IN  [i \in 1..Len(days) |-> [effectiveDate |-> days[i], mid |-> published[days[i]]]]

\* the earliest rate of the reply instead of the latest
LastMid_first(rates) == rates[1].mid

\* data["rates"][-1]["mid"]
LastMid(rates) == rates[Len(rates)].mid

\* get_pln_rate(currency, date) over the rates NBP has published: no rate in
\* the window is a reply that is not JSON
get_pln_rate_of_day(cur, day, published) ==
    IF cur = "PLN" THEN Returned(get_pln_rate(cur, One))
    ELSE LET request == get_pln_rate_requests(cur, day)[1]
             rates == NbpRates(published, request.start, request.stop)
         IN  IF rates = <<>> THEN Raised("JSONDecodeError")
             ELSE Returned(get_pln_rate(cur, LastMid(rates)))

NbpDays == 0..6

RateDays == {5, 6}

MidRates == {Dec(4, 0), Dec(43, 0 - 1)}

PublishedRates == UNION {[days -> MidRates] : days \in SUBSET NbpDays}

GetPlnRateCalls ==
    {[currency |-> cur, date |-> day, published |-> p] :
        cur \in {"PLN", "USD", "EUR"}, day \in RateDays, p \in PublishedRates}

InitGetPlnRate == InitCall("get_pln_rate", GetPlnRateCalls)

GetPlnRate ==
    /\ pc = "start"
    /\ exchange = "get_pln_rate"
    /\ LET r == get_pln_rate_of_day(arg.currency, arg.date, arg.published)
       IN  /\ result' = r.value
           /\ error' = r.raised
           /\ pc' = IF r.raised = "" THEN "returned" ELSE "raised"
    /\ lookups' = get_pln_rate_requests(arg.currency, arg.date)
    /\ call' = "get_pln_rate"
    /\ UNCHANGED <<exchange, btx, xtx, currency, pln_prices, pln_rate, arg, output, pos>>

SpecGetPlnRate == InitGetPlnRate /\ [][GetPlnRate]_vars

GetPlnRateCalled == exchange = "get_pln_rate" /\ pc \in {"returned", "raised"}

\* the days of the five-day window before the date on which a rate was published
PublishedInWindow ==
    {d \in DOMAIN arg.published : arg.date - 5 <= d /\ d <= arg.date - 1}

\* C17: get_pln_rate returns exactly 1 for PLN on every date without any
\* external request; for every other currency it queries the window from 5
\* days before to 1 day before the given date and returns the rate of the
\* most recent published day in that window, so never a rate published on or
\* after the given date; when the window holds no rate the call fails with an
\* error and returns no value.
C17_RateOfLastPublishedDay ==
    GetPlnRateCalled =>
        IF arg.currency = "PLN"
        THEN pc = "returned" /\ result = Dec(1, 0) /\ lookups = <<>>
        ELSE /\ lookups = <<[currency |-> arg.currency, start |-> arg.date - 5,
                             stop |-> arg.date - 1]>>
             /\ IF PublishedInWindow = {}
                THEN pc = "raised" /\ error # "" /\ result = <<>>
                ELSE /\ pc = "returned"
                     /\ \E d \in PublishedInWindow :
                         /\ \A other \in PublishedInWindow : other <= d
                         /\ d < arg.date
                         /\ result = arg.published[d]

\* rates published on days 2, 4 and on the date itself (5): the rate of day 4
C17_Witness ==
    /\ GetPlnRateCalled
    /\ arg.currency = "USD"
    /\ arg.date = 5
    /\ DOMAIN arg.published = {2, 4, 5}
    /\ arg.published[2] = Dec(4, 0)
    /\ arg.published[4] = Dec(43, 0 - 1)
    /\ arg.published[5] = Dec(4, 0)
    /\ result = Dec(43, 0 - 1)

\* the only rates are of the date itself and of six days before: an error
C17_WitnessEmptyWindow ==
    /\ GetPlnRateCalled
    /\ arg.currency = "EUR"
    /\ arg.date = 6
    /\ DOMAIN arg.published = {0, 6}
    /\ pc = "raised"

C17_WitnessPln ==
    /\ GetPlnRateCalled
    /\ arg.currency = "PLN"
    /\ arg.published = <<>>
    /\ result = Dec(1, 0)
    /\ lookups = <<>>

(***************************************************************************)
(* write_inwestomat_transactions: one row of 16 fields per record.  The    *)
(* wall clock of a datetime counts the seconds from 2024-05-01 00:00:00.   *)
(***************************************************************************)
TIMEZONE == "+02:00"

\* datetime.astimezone left out: the wall clock written as it is
astimezone_unconverted(date, tz) == date

\* datetime.astimezone(tz) of a datetime that has a tzinfo: the same instant
astimezone(date, tz) ==
    DateTime(date.wall - UtcOffset(date.tzinfo) + UtcOffset(tz), tz, date.microsecond)

TwoDigits(n) == <<DigitChars[(n \div 10) + 1], DigitChars[(n % 10) + 1]>>

\* strftime("%Y-%m-%d %H:%M:%S") for a datetime of May 2024
strftime(date) ==
    LET day == date.wall \div 86400
        second == date.wall % 86400
    IN  <<"2", "0", "2", "4", "-", "0", "5", "-">> \o TwoDigits(day + 1) \o <<" ">>
            \o TwoDigits(second \div 3600) \o <<":">>
            \o TwoDigits((second % 3600) \div 60) \o <<":">>
            \o TwoDigits(second % 60)

\* TxType.to_pl; the letters z-dot, l-stroke and s-acute of the labels are written z, l, s
to_pl(type) ==
    CASE type = "BUY" -> "Zakup"
      [] type = "SELL" -> "Sprzedaz"
      [] type = "DEPOSIT" -> "Wplata srodków"
      [] type = "WITHDRAW" -> "Wyplata srodków"
      [] type = "DIVIDEND_INTEREST" -> "Dywidenda / Odsetki"
      [] type = "COSTS" -> "Koszty"
      [] type = "SPLIT" -> "Split"

RECURSIVE Digits(_)
\* the digits of a natural number
Digits(n) == IF n < 10 THEN <<n>> ELSE Digits(n \div 10) \o <<n % 10>>

RECURSIVE Number(_)
\* the natural number of a sequence of digits
Number(digits) ==
    IF digits = <<>> THEN 0
    ELSE Number(SubSeq(digits, 1, Len(digits) - 1)) * 10 + digits[Len(digits)]

\* Decimal.as_tuple() of a Decimal c * 10^e
AsTuple(d) == DecimalTuple(IF d.c < 0 THEN 1 ELSE 0, Digits(Abs(d).c), d.e)

\* the Decimal c * 10^e of a triple
FromTuple(tuple) ==
    Dec((IF tuple.sign = 1 THEN 0 - 1 ELSE 1) * Number(tuple.digits), tuple.exponent)

\* Decimal(text)
Decimal(text) == FromTuple(ParseDecimal(text))

\* the list handed to writer.writerow for one record
InwestomatRow(tx) ==
    <<<<>>,
      strftime(astimezone(tx.date, TIMEZONE)),
      tx.ticker,
      CurrencyValue(tx.currency),
      <<>>,
      <<>>,
      to_pl(tx.type),
      _format_number(AsTuple(tx.amount)),
      _format_number(AsTuple(tx.price)),
      _format_number(AsTuple(tx.fee)),
      _format_number(AsTuple(tx.pln_rate)),
      _format_number(AsTuple(tx.nominal_price)),
      _format_number(AsTuple(tx.total_pln)),
      <<>>,
      <<>>,
      tx.comment>>

\* the rows write_inwestomat_transactions writes for the records txs
write_inwestomat_transactions(txs) == [i \in 1..Len(txs) |-> InwestomatRow(txs[i])]

(***************************************************************************)
(* read_xtb_transactions: one row of the XTB file becomes one record       *)
(***************************************************************************)
IsNumberText(s) ==
    /\ Len(s) >= 1
    /\ \A i \in 1..Len(s) : s[i] \in {"0", "1", "2", "3", "4", "5", "6", "7", "8", "9", "."}
    /\ Cardinality({i \in 1..Len(s) : s[i] = "."}) <= 1
    /\ s[1] # "."
    /\ s[Len(s)] # "."

StartsWith(s, prefix) == Len(s) >= Len(prefix) /\ SubSeq(s, 1, Len(prefix)) = prefix

\* the part of s before its first old, all of s when it has none
Before(s, old) ==
    LET at == {i \in 1..Len(s) : s[i] = old}
    IN  IF at = {} THEN s
        ELSE SubSeq(s, 1, (CHOOSE i \in at : \A j \in at : i <= j) - 1)

\* the part of s after its first old
After(s, old) ==
    LET at == {i \in 1..Len(s) : s[i] = old}
    IN  SubSeq(s, (CHOOSE i \in at : \A j \in at : i <= j) + 1, Len(s))

\* re.fullmatch(XTB_BUY_SELL_COMMENT_REGEX, comment): the groups of the match
XTB_BUY_SELL_COMMENT_REGEX(comment) ==
    LET prefixes == {<<"O", "P", "E", "N", " ", "B", "U", "Y", " ">>,
                     <<"C", "L", "O", "S", "E", " ", "B", "U", "Y", " ">>}
        matches ==
            {[asset_amount |-> Before(SubSeq(comment, Len(p) + 1, k - 1), "/"),
              price |-> SubSeq(comment, k + 3, Len(comment))] :
                <<p, k>> \in {pk \in prefixes \X (1..Len(comment)) :
                    /\ StartsWith(comment, pk[1])
                    /\ pk[2] > Len(pk[1])
                    /\ pk[2] + 2 <= Len(comment)
                    /\ SubSeq(comment, pk[2], pk[2] + 2) = <<" ", "@", " ">>
                    /\ IsNumberText(SubSeq(comment, pk[2] + 3, Len(comment)))
                    /\ LET units == SubSeq(comment, Len(pk[1]) + 1, pk[2] - 1)
                       IN  \/ IsNumberText(units)
                           \/ /\ \E i \in 1..Len(units) : units[i] = "/"
                              /\ IsNumberText(Before(units, "/"))
                              /\ IsNumberText(After(units, "/"))}}
    IN  IF matches = {} THEN [matched |-> FALSE]
        ELSE LET m == CHOOSE x \in matches : TRUE
             IN  [matched |-> TRUE, asset_amount |-> m.asset_amount, price |-> m.price]

\* one row of the csv.DictReader: the columns the reader uses
XtbRow(id, type, time, symbol, comment, amount) ==
    [ID |-> id, Type |-> type, Time |-> time, Symbol |-> symbol, Comment |-> comment,
     Amount |-> amount]

\* one pass of the loop of read_xtb_transactions with the direction taken from the label
read_xtb_transaction_by_label(row) ==
    LET time == DateTime(row.Time, TIMEZONE, 0)
        currency_amount == Decimal(row.Amount)
    IN  CASE row.Type \in {"Sprzedaz akcji/ETF", "Zakup akcji/ETF"} ->
                LET comment_match == XTB_BUY_SELL_COMMENT_REGEX(row.Comment)
                IN  IF ~comment_match.matched THEN Raised("AssertionError")
                    ELSE Returned(XtbBuySell(row.ID,
                                             IF row.Type = "Zakup akcji/ETF" THEN "BUY"
                                             ELSE "SELL",
                                             time, row.Symbol,
                                             Decimal(comment_match.asset_amount),
                                             Decimal(comment_match.price),
                                             currency_amount))
          [] row.Type \in {"Wplata", "Wyplata"} ->
                Returned(XtbDepositWithdraw(row.ID,
                                            IF row.Type = "Wyplata" THEN "WITHDRAW"
                                            ELSE "DEPOSIT",
                                            time, currency_amount))
          [] row.Type \in {"Dywidenda", "Odsetki od wolnych srodków"} ->
                Returned(XtbDividendInterest(row.ID, time, row.Symbol, currency_amount))
          [] row.Type \in {"Podatek od dywidend", "Podatek od odsetek od wolnych srodków"} ->
                Returned(XtbCosts(row.ID, time, row.Symbol, currency_amount))
          [] OTHER -> Raised("NotImplementedError")

\* one pass of the loop of read_xtb_transactions; the labels are written as in to_pl
read_xtb_transaction(row) ==
    LET time == DateTime(row.Time, TIMEZONE, 0)
        currency_amount == Decimal(row.Amount)
    IN  CASE row.Type \in {"Sprzedaz akcji/ETF", "Zakup akcji/ETF"} ->
                LET comment_match == XTB_BUY_SELL_COMMENT_REGEX(row.Comment)
                IN  IF ~comment_match.matched THEN Raised("AssertionError")
                    ELSE Returned(XtbBuySell(row.ID,
                                             IF currency_amount.c < 0 THEN "BUY" ELSE "SELL",
                                             time, row.Symbol,
                                             Decimal(comment_match.asset_amount),
                                             Decimal(comment_match.price),
                                             currency_amount))
          [] row.Type \in {"Wplata", "Wyplata"} ->
                Returned(XtbDepositWithdraw(row.ID,
                                            IF currency_amount.c < 0 THEN "WITHDRAW"
                                            ELSE "DEPOSIT",
                                            time, currency_amount))
          [] row.Type \in {"Dywidenda", "Odsetki od wolnych srodków"} ->
                Returned(XtbDividendInterest(row.ID, time, row.Symbol, currency_amount))
          [] row.Type \in {"Podatek od dywidend", "Podatek od odsetek od wolnych srodków"} ->
                Returned(XtbCosts(row.ID, time, row.Symbol, currency_amount))
          [] OTHER -> Raised("NotImplementedError")

(***************************************************************************)
(* read_binance_transactions: one row of the worksheet becomes one record  *)
(***************************************************************************)
\* the eight cells of a row; the date cell as the datetime its text denotes.
\* blank holds the columns (1..max_col) whose cell is empty, for which
\* worksheet.cell(row, column).value is None
BinanceRow(date, market, typ, price, amount, total, fee, fee_coin) ==
    [date |-> date, market |-> market, typ |-> typ, price |-> price, amount |-> amount,
     total |-> total, fee |-> fee, fee_coin |-> fee_coin, blank |-> {}]

max_col == 8

\* the row with the cell of one column left empty
BlankCell(row, column) == [row EXCEPT !.blank = @ \cup {column}]

\* if None in row
NoneInRow(row) == row.blank \cap (1..max_col) # {}

\* one pass of the loop of read_binance_transactions
read_binance_transaction(row) ==
    LET market == identify_binance_market_assets(row.market)
    IN  IF market.raised # "" THEN market
        ELSE IF row.typ \notin TxType THEN Raised("ValueError")
        ELSE Returned(BinanceTx(DateTime(row.date.wall, "UTC", row.date.microsecond),
                                market.value, row.typ, Decimal(row.amount),
                                Decimal(row.price), Decimal(row.total), Decimal(row.fee),
                                row.fee_coin))

(***************************************************************************)
(* convert_xtb and convert_binance: the writer pulls the records of one    *)
(* source row after the other through the reader and the conversion, and   *)
(* writes their rows before the next source row is read.  arg is the       *)
(* source file, pos the number of source rows converted, result the        *)
(* records handed to the writer so far, output the rows written so far.    *)
(***************************************************************************)
MaxRows == 2

\* rows of 2024-05-07 00:47:46
XtbRows ==
    {
     \* a deposit of 100
     XtbRow(<<"5", "1", "5">>, "Wplata", 521266,
            <<>>, <<>>, <<"1", "0", "0">>),
     \* a purchase of 2 DEK.PL at 1.5
     XtbRow(<<"5", "1", "6">>, "Zakup akcji/ETF", 521266,
            <<"D", "E", "K", ".", "P", "L">>, <<"O", "P", "E", "N", " ", "B", "U", "Y", " ", "2", " ", "@", " ", "1", ".", "5">>, <<"-", "3">>),
     \* a sale of 1 of 2 DTLA.UK at 5.00
     XtbRow(<<"5", "1", "7">>, "Sprzedaz akcji/ETF", 521266,
            <<"D", "T", "L", "A", ".", "U", "K">>, <<"C", "L", "O", "S", "E", " ", "B", "U", "Y", " ", "1", "/", "2", " ", "@", " ", "5", ".", "0", "0">>, <<"5">>),
     \* a tax of 0.5
     XtbRow(<<"5", "1", "8">>, "Podatek od dywidend", 521266,
            <<"D", "E", "K", ".", "P", "L">>, <<>>, <<"-", "0", ".", "5">>),
     \* a label the reader does not know
     XtbRow(<<"5", "1", "9">>, "Prowizja", 521266,
            <<>>, <<>>, <<"-", "1">>),
     \* a purchase with a comment that is not a trade comment
     XtbRow(<<"5", "2", "0">>, "Zakup akcji/ETF", 521266,
            <<"D", "E", "K", ".", "P", "L">>, <<"B", "U", "Y", " ", "2">>, <<"-", "3">>),
     \* a purchase of a symbol of an unknown country
     XtbRow(<<"5", "2", "1">>, "Zakup akcji/ETF", 521266,
            <<"X", ".", "U", "S">>, <<"O", "P", "E", "N", " ", "B", "U", "Y", " ", "2", " ", "@", " ", "1", ".", "5">>, <<"-", "3">>)}

\* rows of 2024-05-07 23:30:00
BinanceRows ==
    {
     \* ADA sold for BTC
     BinanceRow([wall |-> 603000, microsecond |-> 0], <<"A", "D", "A", "B", "T", "C">>, "SELL",
            <<"0", ".", "5">>, <<"2">>, <<"1">>, <<"0">>, BNB),
     \* ADA bought with BTC, the fee paid in ADA
     BinanceRow([wall |-> 603000, microsecond |-> 0], <<"A", "D", "A", "B", "T", "C">>, "BUY",
            <<"0", ".", "5">>, <<"2">>, <<"1">>, <<"0", ".", "1">>, ADA),
     \* a market that ends with no known quote asset
     BinanceRow([wall |-> 603000, microsecond |-> 0], <<"A", "D", "A", "X", "Y", "Z">>, "SELL",
            <<"0", ".", "5">>, <<"2">>, <<"1">>, <<"0">>, BNB),
     \* a type label that is no TxType
     BinanceRow([wall |-> 603000, microsecond |-> 0], <<"A", "D", "A", "B", "T", "C">>, "TRADE",
            <<"0", ".", "5">>, <<"2">>, <<"1">>, <<"0">>, BNB),
     \* a date with half a second
     BinanceRow([wall |-> 603000, microsecond |-> 500000], <<"A", "D", "A", "B", "T", "C">>, "SELL",
            <<"0", ".", "5">>, <<"2">>, <<"1">>, <<"0">>, BNB),
     \* a type label that is a TxType but not the type of a trade
     BinanceRow([wall |-> 603000, microsecond |-> 0], <<"A", "D", "A", "B", "T", "C">>, "DEPOSIT",
            <<"0", ".", "5">>, <<"2">>, <<"1">>, <<"0">>, BNB),
     \* a row with no fee coin
     BlankCell(BinanceRow([wall |-> 603000, microsecond |-> 0],
                          <<"A", "D", "A", "B", "T", "C">>, "BUY",
                          <<"0", ".", "5">>, <<"2">>, <<"1">>, <<"0">>, <<>>), 8),
     \* a row with no date
     BlankCell(BinanceRow([wall |-> 0, microsecond |-> 0],
                          <<"A", "D", "A", "B", "T", "C">>, "SELL",
                          <<"0", ".", "5">>, <<"2">>, <<"1">>, <<"0">>, BNB), 1)}

XtbFiles == UNION {[1..n -> XtbRows] : n \in 0..MaxRows}

BinanceFiles == UNION {[1..n -> BinanceRows] : n \in 0..MaxRows}

\* what NBP has published: nothing, or a rate of 4 on 2024-05-06
RunPublished == {[d \in {} |-> One], [d \in {5} |-> Dec(4, 0)]}

\* what the exchange returns: no kline, or one with the close price 4
RunKLines == {<<>>, <<KLine(603000000, <<"4", ".", "0">>, <<"4", ".", "0">>)>>}

InitRun ==
    /\ \/ exchange = "convert_xtb" /\ arg \in XtbFiles /\ currency \in {"PLN", "USD"}
       \/ exchange = "convert_binance" /\ arg \in BinanceFiles /\ currency = "PLN"
    /\ btx = NoTx
    /\ xtx = NoTx
    /\ call = ""
    /\ pc = "start"
    /\ pln_prices = NoPrices
    /\ pln_rate = One
    /\ result = <<>>
    /\ error = ""
    /\ lookups = <<>>
    /\ output = <<>>
    /\ pos = 0

\* convert_xtb: the next source row is read, its rate looked up, the record
\* converted and its rows written; an exception of any step ends the run
ConvertXtbRecord ==
    /\ pc = "start"
    /\ exchange = "convert_xtb"
    /\ pos < Len(arg)
    /\ \E published \in RunPublished :
        LET read == read_xtb_transaction(arg[pos + 1])
        IN  IF read.raised # ""
            THEN /\ error' = read.raised
                 /\ pc' = "raised"
                 /\ UNCHANGED <<xtx, pln_rate, lookups, result, output, pos>>
            ELSE LET tx == read.value
                     day == DayOf(tx.time.wall)
                     rate == get_pln_rate_of_day(currency, day, published)
                 IN  /\ xtx' = tx
                     /\ lookups' = lookups \o get_pln_rate_requests(currency, day)
                     /\ IF rate.raised # ""
                        THEN /\ error' = rate.raised
                             /\ pc' = "raised"
                             /\ UNCHANGED <<pln_rate, result, output, pos>>
                        ELSE LET txs == convert_xtb_tx(tx, currency, rate.value)
                             IN  /\ pln_rate' = rate.value
                                 /\ IF txs.raised # ""
                                    THEN /\ error' = txs.raised
                                         /\ pc' = "raised"
                                         /\ UNCHANGED <<result, output, pos>>
                                    ELSE /\ result' = result \o txs.value
                                         /\ output' = output
                                                \o write_inwestomat_transactions(txs.value)
                                         /\ pos' = pos + 1
                                         /\ UNCHANGED <<pc, error>>
    /\ call' = "convert_xtb"
    /\ UNCHANGED <<exchange, arg, currency, btx, pln_prices>>

\* convert_binance_tx for a record of any type.  The match statement of
\* split_binance_tx_to_inwestomat_txs has an arm for BUY and one for SELL;
\* with another type no arm binds sell_ticker, and the statement after the
\* match, which reads it, raises.
convert_binance_record(b, quote_asset_in_pln) ==
    IF b.type \in {"BUY", "SELL"}
    THEN Returned(convert_binance_tx(b, quote_asset_in_pln))
    ELSE Raised("UnboundLocalError")

\* convert_binance: the next source row is read, the quote asset's price
\* looked up, the record converted and its rows written
ConvertBinanceRecord ==
    /\ pc = "start"
    /\ exchange = "convert_binance"
    /\ pos < Len(arg)
    /\ ~NoneInRow(arg[pos + 1])
    /\ \E klines \in RunKLines :
        LET read == read_binance_transaction(arg[pos + 1])
        IN  IF read.raised # ""
            THEN /\ error' = read.raised
                 /\ pc' = "raised"
                 /\ UNCHANGED <<btx, pln_prices, lookups, result, output, pos>>
            ELSE LET tx == read.value
                     market == <<tx.market[2], PLN>>
                     price == get_price(tx.date, market, klines)
                 IN  /\ btx' = tx
                     /\ lookups' = lookups \o get_price_lookups(tx.date, market)
                     /\ IF price.raised # ""
                        THEN /\ error' = price.raised
                             /\ pc' = "raised"
                             /\ UNCHANGED <<pln_prices, result, output, pos>>
                        ELSE LET quote_asset_in_pln == FromTuple(price.value)
                                 txs == convert_binance_record(tx, quote_asset_in_pln)
                             IN  /\ pln_prices' = find_pln_prices(quote_asset_in_pln,
                                                                  tx.market, tx.price)
                                 /\ IF txs.raised # ""
                                    THEN /\ error' = txs.raised
                                         /\ pc' = "raised"
                                         /\ UNCHANGED <<result, output, pos>>
                                    ELSE /\ result' = result \o txs.value
                                         /\ output' = output
                                                \o write_inwestomat_transactions(txs.value)
                                         /\ pos' = pos + 1
                                         /\ UNCHANGED <<pc, error>>
    /\ call' = "convert_binance"
    /\ UNCHANGED <<exchange, arg, currency, xtx, pln_rate>>

\* the reader has no further row: the run returns.  The rows of the CSV
\* file are exhausted; in the worksheet the next row has an empty cell,
\* as every row after the last one filled in has.
EndOfInput ==
    /\ pc = "start"
    /\ \/ exchange = "convert_xtb" /\ pos = Len(arg)
       \/ /\ exchange = "convert_binance"
          /\ pos = Len(arg) \/ (pos < Len(arg) /\ NoneInRow(arg[pos + 1]))
    /\ pc' = "returned"
    /\ call' = exchange
    /\ UNCHANGED <<exchange, arg, currency, btx, xtx, pln_prices, pln_rate, result, error,
                   lookups, output, pos>>

NextRun == ConvertXtbRecord \/ ConvertBinanceRecord \/ EndOfInput

SpecRun == InitRun /\ [][NextRun]_vars

InRun == exchange \in {"convert_xtb", "convert_binance"}

\* the run has ended with an exception raised for source row pos + 1
RunRaised == InRun /\ pc = "raised"

\* C13: in convert_xtb and convert_binance, if a hard error occurs while
\* source record k is processed (a type label not recognized, a trade comment
\* that cannot be parsed, a market suffix not matched, a country code not
\* recognized, a price or rate lookup that fails), for any position k, then
\* no ledger row has been written to the output; rows are written only in
\* runs in which every source record converts.
C13_AllOrNothing == RunRaised => output = <<>>

\* what the code keeps instead: at an error of source record k the rows of
\* the k - 1 records before it have been written, in order, and no row of
\* record k or of a later record; an error of the first record leaves the
\* output empty.
C13_RowsOfEarlierRecords ==
    RunRaised =>
        /\ pos < Len(arg)
        /\ output = write_inwestomat_transactions(result)
        /\ Len(output) >= pos
        /\ Len(output) <= 2 * pos
        /\ pos = 0 => output = <<>>

\* a deposit, then a label the reader does not know: the rows of the deposit
\* are written before the run aborts
C13_WitnessPartialOutput ==
    /\ RunRaised
    /\ exchange = "convert_xtb"
    /\ currency = "USD"
    /\ pos = 1
    /\ arg[2].Type = "Prowizja"
    /\ error = "NotImplementedError"
    /\ Len(output) = 2

\* the label is not known in the first row: nothing is written
C13_WitnessFirstRecord ==
    /\ RunRaised
    /\ pos = 0
    /\ arg[1].Type = "Prowizja"
    /\ output = <<>>

\* the datetime field of a row: the wall clock of the record's instant at UTC+2
DateField(date) ==
    strftime(DateTime(IF date.tzinfo = "UTC" THEN date.wall + 2 * 3600 ELSE date.wall,
                      "+02:00", date.microsecond))

\* C19: write_inwestomat_transactions writes exactly one row per record, in
\* the order of the records, each row with exactly 16 fields in the order
\* blank, datetime, ticker, currency code, blank, blank, type label in Polish,
\* quantity, unit price, fee, exchange rate, nominal price, total PLN, blank,
\* blank, comment; the datetime is the record's instant at the fixed offset
\* UTC+2: a UTC timestamp is written 2 hours later, a +02:00 timestamp with
\* its wall-clock time unchanged.
C19_OneRowPerRecord ==
    InRun =>
        /\ Len(output) = Len(result)
        /\ \A i \in 1..Len(result) :
            /\ Len(output[i]) = 16
            /\ output[i][1] = <<>>
            /\ output[i][2] = DateField(result[i].date)
            /\ output[i][3] = result[i].ticker
            /\ output[i][4] = CurrencyValue(result[i].currency)
            /\ output[i][5] = <<>>
            /\ output[i][6] = <<>>
            /\ output[i][7] = to_pl(result[i].type)
            /\ output[i][8] = _format_number(AsTuple(result[i].amount))
            /\ output[i][9] = _format_number(AsTuple(result[i].price))
            /\ output[i][10] = _format_number(AsTuple(result[i].fee))
            /\ output[i][11] = _format_number(AsTuple(result[i].pln_rate))
            /\ output[i][12] = _format_number(AsTuple(result[i].nominal_price))
            /\ output[i][13] = _format_number(AsTuple(result[i].total_pln))
            /\ output[i][14] = <<>>
            /\ output[i][15] = <<>>
            /\ output[i][16] = result[i].comment

\* a Binance sale of 2024-05-07 23:30:00 UTC is written as 2024-05-08 01:30:00
C19_Witness ==
    /\ exchange = "convert_binance"
    /\ pc = "returned"
    /\ Len(arg) = 1
    /\ Len(output) = 2
    /\ result[1].date = DateTime(603000, "UTC", 0)
    /\ output[1] = <<<<>>, <<"2", "0", "2", "4", "-", "0", "5", "-", "0", "8", " ", "0", "1", ":", "3", "0", ":", "0", "0">>,
                     <<"C", "U", "R", "R", "E", "N", "C", "Y", ":", "A", "D", "A", "P", "L", "N">>,
                     <<"P", "L", "N">>, <<>>, <<>>, "Sprzedaz", <<"2">>, <<"2">>, <<"0">>,
                     <<"1">>, <<"1">>, <<"4">>, <<>>, <<>>, <<>>>>

\* an XTB deposit of 2024-05-07 00:47:46+02:00 is written with the same wall clock
C19_WitnessLocal ==
    /\ exchange = "convert_xtb"
    /\ pc = "returned"
    /\ currency = "PLN"
    /\ Len(arg) = 2
    /\ Len(output) = 2
    /\ result[1].date = DateTime(521266, "+02:00", 0)
    /\ output[1][2] = <<"2", "0", "2", "4", "-", "0", "5", "-", "0", "7", " ", "0", "0", ":", "4", "7", ":", "4", "6">>
    /\ output[1][7] = "Wplata srodków"
    /\ output[1][16] = <<"I", "D", ":", "5", "1", "5">>
    /\ output[2][7] = "Koszty"
    /\ output[2][8] = <<"1">>
    /\ output[2][13] = <<"0", ",", "5">>

XtbKnownLabels ==
    {"Sprzedaz akcji/ETF", "Zakup akcji/ETF", "Wplata", "Wyplata", "Dywidenda",
     "Odsetki od wolnych srodków", "Podatek od dywidend",
     "Podatek od odsetek od wolnych srodków"}

\* labels the match statement does not hold: another word, another case, a
\* blank after or before the label, a part of a label, no label
XtbUnknownLabels ==
    {"Prowizja", "zakup akcji/ETF", "Wplata ", " Wplata", "Zakup", "Podatek", ""}

\* comments of trades as XTB writes them
TradeComments ==
    {\* 'OPEN BUY 10 @ 55.10'
     <<"O", "P", "E", "N", " ", "B", "U", "Y", " ", "1", "0", " ", "@", " ", "5", "5", ".", "1", "0">>,
     \* 'CLOSE BUY 1/2 @ 5.00'
     <<"C", "L", "O", "S", "E", " ", "B", "U", "Y", " ", "1", "/", "2", " ", "@", " ", "5", ".", "0", "0">>,
     \* 'OPEN BUY 0.5/1.5 @ 2'
     <<"O", "P", "E", "N", " ", "B", "U", "Y", " ", "0", ".", "5", "/", "1", ".", "5", " ", "@", " ", "2">>}

\* comments the pattern does not match as a whole
OtherComments ==
    {\* ''
     <<>>,
     \* 'BUY 2 @ 1'
     <<"B", "U", "Y", " ", "2", " ", "@", " ", "1">>,
     \* 'OPEN SELL 2 @ 1.5'
     <<"O", "P", "E", "N", " ", "S", "E", "L", "L", " ", "2", " ", "@", " ", "1", ".", "5">>,
     \* 'OPEN BUY 2 @ 1.5 x'
     <<"O", "P", "E", "N", " ", "B", "U", "Y", " ", "2", " ", "@", " ", "1", ".", "5", " ", "x">>,
     \* 'x OPEN BUY 2 @ 1.5'
     <<"x", " ", "O", "P", "E", "N", " ", "B", "U", "Y", " ", "2", " ", "@", " ", "1", ".", "5">>,
     \* 'OPEN BUY 2. @ 1'
     <<"O", "P", "E", "N", " ", "B", "U", "Y", " ", "2", ".", " ", "@", " ", "1">>,
     \* 'OPEN BUY 1/ @ 2'
     <<"O", "P", "E", "N", " ", "B", "U", "Y", " ", "1", "/", " ", "@", " ", "2">>,
     \* 'OPEN BUY 2@1'
     <<"O", "P", "E", "N", " ", "B", "U", "Y", " ", "2", "@", "1">>,
     \* 'OPEN BUY 1/2/3 @ 4'
     <<"O", "P", "E", "N", " ", "B", "U", "Y", " ", "1", "/", "2", "/", "3", " ", "@", " ", "4">>,
     \* 'OPEN BUY 2 @ .5'
     <<"O", "P", "E", "N", " ", "B", "U", "Y", " ", "2", " ", "@", " ", ".", "5">>,
     \* 'open buy 2 @ 1'
     <<"o", "p", "e", "n", " ", "b", "u", "y", " ", "2", " ", "@", " ", "1">>}

\* cash amounts: negative, zero, positive
XtbAmounts == {<<"-", "3">>, <<"-", "0", ".", "5">>, <<"0">>, <<"5">>}

XtbReaderRows ==
    {XtbRow(<<"5", "1", "5">>, type, 521266, <<"D", "E", "K", ".", "P", "L">>, comment, amount) :
        type \in XtbKnownLabels \cup XtbUnknownLabels,
        comment \in TradeComments \cup OtherComments,
        amount \in XtbAmounts}

InitReadXtb == InitCall("read_xtb_transactions", XtbReaderRows)

ReadXtbRow ==
    /\ pc = "start"
    /\ exchange = "read_xtb_transactions"
    /\ LET r == read_xtb_transaction(arg)
       IN  /\ xtx' = IF r.raised = "" THEN r.value ELSE xtx
           /\ result' = IF r.raised = "" THEN <<r.value>> ELSE <<>>
           /\ error' = r.raised
           /\ pc' = IF r.raised = "" THEN "returned" ELSE "raised"
    /\ call' = "read_xtb_transactions"
    /\ UNCHANGED <<exchange, btx, currency, pln_prices, pln_rate, arg, lookups, output, pos>>

SpecReadXtb == InitReadXtb /\ [][ReadXtbRow]_vars

ReadXtbCalled == exchange = "read_xtb_transactions" /\ pc \in {"returned", "raised"}

\* the cash amount of the row is below zero
NegativeAmount ==
    /\ arg.Amount[1] = "-"
    /\ \E i \in 2..Len(arg.Amount) : arg.Amount[i] \notin {"0", "."}

\* C21: read_xtb_transactions selects the variant of each row by exact match
\* of its type label against the eight recognized labels and takes the
\* direction only from the sign of the cash amount: a BuySell row is BUY when
\* the amount is negative and SELL otherwise, a DepositWithdraw row WITHDRAW
\* when it is negative and DEPOSIT otherwise; a row with any other label
\* raises an error, and so does a BuySell row whose comment does not match
\* the executed-count/price pattern as a whole; in both cases no record is
\* yielded for the row.
C21_VariantByLabelDirectionBySign ==
    ReadXtbCalled =>
        CASE arg.Type \in {"Sprzedaz akcji/ETF", "Zakup akcji/ETF"} ->
                IF arg.Comment \in TradeComments
                THEN /\ pc = "returned"
                     /\ Len(result) = 1
                     /\ result[1].kind = "XtbBuySell"
                     /\ result[1].type = IF NegativeAmount THEN "BUY" ELSE "SELL"
                ELSE pc = "raised" /\ error # "" /\ result = <<>>
          [] arg.Type \in {"Wplata", "Wyplata"} ->
                /\ pc = "returned"
                /\ Len(result) = 1
                /\ result[1].kind = "XtbDepositWithdraw"
                /\ result[1].type = IF NegativeAmount THEN "WITHDRAW" ELSE "DEPOSIT"
          [] arg.Type \in {"Dywidenda", "Odsetki od wolnych srodków"} ->
                /\ pc = "returned"
                /\ Len(result) = 1
                /\ result[1].kind = "XtbDividendInterest"
          [] arg.Type \in {"Podatek od dywidend", "Podatek od odsetek od wolnych srodków"} ->
                /\ pc = "returned"
                /\ Len(result) = 1
                /\ result[1].kind = "XtbCosts"
          [] OTHER -> pc = "raised" /\ error = "NotImplementedError" /\ result = <<>>

\* a row labelled as a purchase with a positive amount is a SELL of 1 at 5.00
C21_Witness ==
    /\ ReadXtbCalled
    /\ arg.Type = "Zakup akcji/ETF"
    /\ arg.Amount = <<"5">>
    /\ arg.Comment = <<"C", "L", "O", "S", "E", " ", "B", "U", "Y", " ", "1", "/", "2", " ", "@", " ", "5", ".", "0", "0">>
    /\ result[1].type = "SELL"
    /\ result[1].asset_amount = Dec(1, 0)
    /\ result[1].price = Dec(500, 0 - 2)

\* a payout row with the amount 0 is a DEPOSIT
C21_WitnessZero ==
    /\ ReadXtbCalled
    /\ arg.Type = "Wyplata"
    /\ arg.Amount = <<"0">>
    /\ result[1].type = "DEPOSIT"

\* a label in another case
C21_WitnessUnknownLabel ==
    /\ ReadXtbCalled
    /\ arg.Type = "zakup akcji/ETF"
    /\ error = "NotImplementedError"
    /\ result = <<>>

\* a trade whose comment has text after the price
C21_WitnessComment ==
    /\ ReadXtbCalled
    /\ arg.Type = "Sprzedaz akcji/ETF"
    /\ arg.Comment = <<"O", "P", "E", "N", " ", "B", "U", "Y", " ", "2", " ", "@", " ", "1", ".", "5", " ", "x">>
    /\ error = "AssertionError"
    /\ result = <<>>

(***************************************************************************)
(* read_binance_transactions inside convert_binance                        *)
(***************************************************************************)
BinanceRun == exchange = "convert_binance"

\* the number of the first row of the worksheet with an empty cell
FirstBlankRow(file) ==
    IF \E i \in 1..Len(file) : NoneInRow(file[i])
    THEN CHOOSE i \in 1..Len(file) :
            NoneInRow(file[i]) /\ \A j \in 1..(i - 1) : ~NoneInRow(file[j])
    ELSE Len(file) + 1

MarketKnown(row) == identify_binance_market_assets(row.market).raised = ""

\* the record read_binance_transactions yields for a row is at hand
YieldedFrom(row) ==
    /\ btx # NoTx
    /\ btx.type = row.typ
    /\ btx.date = DateTime(row.date.wall, "UTC", row.date.microsecond)
    /\ btx.market = identify_binance_market_assets(row.market).value
    /\ btx.price = Decimal(row.price)
    /\ btx.amount = Decimal(row.amount)
    /\ btx.total = Decimal(row.total)
    /\ btx.fee = Decimal(row.fee)
    /\ btx.fee_coin = row.fee_coin

\* the record at hand is the one of the last row converted, none before
\* the first
YieldedUpTo(k) == IF k = 0 THEN btx = NoTx ELSE YieldedFrom(arg[k])

\* the rows before the first one with an empty cell are converted one by
\* one, in row order, and no row from that one on
RowsUpToFirstBlank ==
    /\ pos < FirstBlankRow(arg)
    /\ Len(result) = 2 * pos
    /\ \A k \in 1..pos :
        /\ arg[k].typ \in {"BUY", "SELL"}
        /\ result[2 * k].date = DateTime(arg[k].date.wall, "UTC", arg[k].date.microsecond)
        /\ result[2 * k - 1].amount
               = Decimal(IF arg[k].typ = "SELL" THEN arg[k].amount ELSE arg[k].total)
    /\ pc = "start" => YieldedUpTo(pos)
    /\ pc = "returned" => pos = FirstBlankRow(arg) - 1 /\ YieldedUpTo(pos)

\* a row whose type cell holds no value of TxType raises in the reader and
\* no record is yielded for it
UnknownTypeRaises ==
    (pc = "raised" /\ MarketKnown(arg[pos + 1]) /\ arg[pos + 1].typ \notin TxType)
        => error = "ValueError" /\ YieldedUpTo(pos) /\ Len(lookups) = pos

\* C22 as the specification states it: read_binance_transactions yields one
\* record per data row, in row order, up to but excluding the first row
\* that has a blank cell in any of its 8 columns, and every record it yields
\* has trade type BUY or SELL: a row whose trade-type cell holds any other
\* value (an unknown string, or another transaction type such as DEPOSIT)
\* is a hard error and no record is yielded for it, so
\* split_binance_tx_to_inwestomat_txs is never reached with a type other
\* than BUY or SELL.
C22_OnlyBuyOrSellYielded ==
    BinanceRun =>
        /\ RowsUpToFirstBlank
        /\ UnknownTypeRaises
        /\ btx # NoTx => btx.type \in {"BUY", "SELL"}
        /\ (pc = "raised" /\ MarketKnown(arg[pos + 1])
                /\ arg[pos + 1].typ \notin {"BUY", "SELL"})
            => error = "ValueError" /\ YieldedUpTo(pos) /\ Len(lookups) = pos

\* C22: read_binance_transactions yields one record per data row, in row
\* order, up to but excluding the first row that has a blank cell in any of
\* its 8 columns.  A row whose trade-type cell holds a string that is no
\* value of TxType is a hard error of the reader (ValueError) and no record
\* is yielded for it.  A row whose trade-type cell holds a value of TxType
\* other than BUY and SELL (DEPOSIT, WITHDRAW, ...) is yielded as a record
\* of that type: the price lookup is issued for it and, when the lookup
\* succeeds, split_binance_tx_to_inwestomat_txs is reached with that type
\* and raises UnboundLocalError, so that no ledger row is written for it.
C22_RecordsUpToFirstBlankRow ==
    BinanceRun =>
        /\ RowsUpToFirstBlank
        /\ UnknownTypeRaises
        /\ btx # NoTx => btx.type \in TxType
        /\ (pc = "raised" /\ MarketKnown(arg[pos + 1])
                /\ arg[pos + 1].typ \in TxType \ {"BUY", "SELL"})
            => /\ YieldedFrom(arg[pos + 1])
               /\ Len(lookups) = pos + 1
               /\ error \in {"UnboundLocalError", "IndexError", "AssertionError"}
               /\ Len(output) = 2 * pos

\* a trade, then a row with an empty cell, both rows read past: one record
C22_Witness ==
    /\ BinanceRun
    /\ pc = "returned"
    /\ Len(arg) = 2
    /\ pos = 1
    /\ NoneInRow(arg[2])
    /\ Len(output) = 2

\* a DEPOSIT row after a trade: the record is yielded, its price looked up
\* and the split raises
C22_WitnessDeposit ==
    /\ BinanceRun
    /\ pc = "raised"
    /\ pos = 1
    /\ arg[2].typ = "DEPOSIT"
    /\ btx # NoTx
    /\ btx.type = "DEPOSIT"
    /\ error = "UnboundLocalError"
    /\ Len(lookups) = 2

\* a type label that is no TxType: the reader raises
C22_WitnessUnknownType ==
    /\ BinanceRun
    /\ pc = "raised"
    /\ pos = 1
    /\ arg[2].typ = "TRADE"
    /\ error = "ValueError"
    /\ btx.type \in {"BUY", "SELL"}

\* rows after the first one with an empty cell are not read
C22_WitnessRowsAfterBlank ==
    /\ BinanceRun
    /\ pc = "returned"
    /\ pos = 0
    /\ Len(arg) = 2
    /\ NoneInRow(arg[1])
    /\ ~NoneInRow(arg[2])
    /\ output = <<>>

(***************************************************************************)
(* convert_xtb and convert_binance step by step.  The writer's loop asks   *)
(* the chain for the next record; the chain hands out the records of the   *)
(* list at hand and, when it is used up, asks the generator expression for *)
(* the next list: that pulls one row through the reader and converts it.   *)
(* Here pos is the number of source rows the reader has yielded a record   *)
(* for, result the records the conversions have returned so far, output the*)
(* rows written; pc is "start" when the next row is to be pulled,          *)
(* "convert" with a record at hand, "write" with records of the list at    *)
(* hand not yet written.                                                   *)
(***************************************************************************)
\* the requests sent so far and those of one more lookup, with a request
\* sent before answered from memory
Issued_cached(sent, requests) ==
    sent \o SelectSeq(requests, LAMBDA r : \A i \in 1..Len(sent) : sent[i] # r)

\* the requests sent so far and those of one more lookup: get_price and
\* get_pln_rate send their request at every call
Issued(sent, requests) == sent \o requests

InitPass == InitRun

\* for tx in xtb_txs: the reader runs up to its next yield
PullXtbRecord ==
    /\ pc = "start"
    /\ exchange = "convert_xtb"
    /\ pos < Len(arg)
    /\ LET read == read_xtb_transaction(arg[pos + 1])
       IN  IF read.raised # ""
           THEN /\ error' = read.raised
                /\ pc' = "raised"
                /\ UNCHANGED <<xtx, pos>>
           ELSE /\ xtx' = read.value
                /\ pos' = pos + 1
                /\ pc' = "convert"
                /\ UNCHANGED error
    /\ call' = "read_xtb_transactions"
    /\ UNCHANGED <<exchange, arg, currency, btx, pln_prices, pln_rate, result, lookups,
                   output>>

\* for tx in binance_txs: the reader runs up to its next yield
PullBinanceRecord ==
    /\ pc = "start"
    /\ exchange = "convert_binance"
    /\ pos < Len(arg)
    /\ ~NoneInRow(arg[pos + 1])
    /\ LET read == read_binance_transaction(arg[pos + 1])
       IN  IF read.raised # ""
           THEN /\ error' = read.raised
                /\ pc' = "raised"
                /\ UNCHANGED <<btx, pos>>
           ELSE /\ btx' = read.value
                /\ pos' = pos + 1
                /\ pc' = "convert"
                /\ UNCHANGED error
    /\ call' = "read_binance_transactions"
    /\ UNCHANGED <<exchange, arg, currency, xtx, pln_prices, pln_rate, result, lookups,
                   output>>

\* convert_xtb_tx(tx, currency, get_pln_rate(currency, tx.time.date()))
ConvertXtbLegs ==
    /\ pc = "convert"
    /\ exchange = "convert_xtb"
    /\ \E published \in RunPublished :
        LET day == DayOf(xtx.time.wall)
            rate == get_pln_rate_of_day(currency, day, published)
        IN  /\ lookups' = Issued(lookups, get_pln_rate_requests(currency, day))
            /\ IF rate.raised # ""
               THEN /\ error' = rate.raised
                    /\ pc' = "raised"
                    /\ UNCHANGED <<pln_rate, result>>
               ELSE LET txs == convert_xtb_tx(xtx, currency, rate.value)
                    IN  /\ pln_rate' = rate.value
                        /\ IF txs.raised # ""
                           THEN /\ error' = txs.raised
                                /\ pc' = "raised"
                                /\ UNCHANGED result
                           ELSE /\ result' = result \o txs.value
                                /\ pc' = "write"
                                /\ UNCHANGED error
    /\ call' = "convert_xtb_tx"
    /\ UNCHANGED <<exchange, arg, currency, btx, xtx, pln_prices, output, pos>>

\* convert_binance_tx(tx, binance_client)
ConvertBinanceLegs ==
    /\ pc = "convert"
    /\ exchange = "convert_binance"
    /\ \E klines \in RunKLines :
        LET market == <<btx.market[2], PLN>>
            price == get_price(btx.date, market, klines)
        IN  /\ lookups' = Issued(lookups, get_price_lookups(btx.date, market))
            /\ IF price.raised # ""
               THEN /\ error' = price.raised
                    /\ pc' = "raised"
                    /\ UNCHANGED <<pln_prices, result>>
               ELSE LET quote_asset_in_pln == FromTuple(price.value)
                        txs == convert_binance_record(btx, quote_asset_in_pln)
                    IN  /\ pln_prices' = find_pln_prices(quote_asset_in_pln,
                                                         btx.market, btx.price)
                        /\ IF txs.raised # ""
                           THEN /\ error' = txs.raised
                                /\ pc' = "raised"
                                /\ UNCHANGED result
                           ELSE /\ result' = result \o txs.value
                                /\ pc' = "write"
                                /\ UNCHANGED error
    /\ call' = "convert_binance_tx"
    /\ UNCHANGED <<exchange, arg, currency, btx, xtx, pln_rate, output, pos>>

\* one pass of the loop of write_inwestomat_transactions: the next record of
\* the list at hand is written
WriteRow ==
    /\ pc = "write"
    /\ Len(output) < Len(result)
    /\ output' = output \o write_inwestomat_transactions(<<result[Len(output) + 1]>>)
    /\ pc' = IF Len(output) + 1 = Len(result) THEN "start" ELSE "write"
    /\ call' = "write_inwestomat_transactions"
    /\ UNCHANGED <<exchange, arg, currency, btx, xtx, pln_prices, pln_rate, result, error,
                   lookups, pos>>

NextPass ==
    \/ PullXtbRecord
    \/ PullBinanceRecord
    \/ ConvertXtbLegs
    \/ ConvertBinanceLegs
    \/ WriteRow
    \/ EndOfInput

SpecPass == InitPass /\ [][NextPass]_vars

\* the ledger rows of one source record: the asset leg alone for an XTB
\* account in PLN, else two legs
LegsPerRecord == IF exchange = "convert_xtb" /\ currency = "PLN" THEN 1 ELSE 2

\* the requests of one source record: none for an XTB account in PLN
LookupsPerRecord == IF exchange = "convert_xtb" /\ currency = "PLN" THEN 0 ELSE 1

\* the source row and the leg that the i-th ledger record belongs to
SourceRowOf(i) == ((i - 1) \div LegsPerRecord) + 1

LegOf(i) == ((i - 1) % LegsPerRecord) + 1

\* the request of the lookup for the k-th source row
RequestOf(k) ==
    IF exchange = "convert_xtb"
    THEN [currency |-> currency, start |-> DayOf(arg[k].Time) - 5,
          stop |-> DayOf(arg[k].Time) - 1]
    ELSE [symbol |-> identify_binance_market_assets(arg[k].market).value[2] \o PLN,
          interval |-> "1s", start |-> arg[k].date.wall * 1000,
          end |-> arg[k].date.wall * 1000 + 1]

\* the i-th ledger record is the leg LegOf(i) of the source row SourceRowOf(i)
LegInPlace(i) ==
    LET row == arg[SourceRowOf(i)]
    IN  IF exchange = "convert_xtb"
        THEN /\ result[i].comment = <<"I", "D", ":">> \o row.ID
             /\ LegOf(i) = 2 => result[i].ticker = CurrencyTicker(currency)
             /\ (LegOf(i) = 1 /\ currency # "PLN")
                    => result[i].ticker # CurrencyTicker(currency)
        ELSE /\ result[i].date = DateTime(row.date.wall, "UTC", row.date.microsecond)
             /\ result[i].type = (IF LegOf(i) = 1 THEN "SELL" ELSE "BUY")
             /\ LegOf(i) = 1 =>
                    result[i].amount
                        = Decimal(IF row.typ = "SELL" THEN row.amount ELSE row.total)

\* C23: in convert_xtb and convert_binance the records are processed one at
\* a time and in a single pass: source row k+1 is read only after every
\* ledger row of source row k has been written; the output rows appear in
\* source-row order with the legs of one source record adjacent (SELL leg
\* then BUY leg for Binance, asset leg then currency leg for XTB); and the
\* external lookup is issued once for each source record that needs it,
\* with no caching, so n records with the same pair or date cause n lookups.
C23_SinglePassInOrder ==
    InRun =>
        /\ Len(output) <= Len(result)
        /\ Len(result) <= LegsPerRecord * pos
        /\ pos > 0 => Len(output) >= LegsPerRecord * (pos - 1)
        /\ pc \in {"start", "returned"} => Len(output) = LegsPerRecord * pos
        /\ pc = "write" => Len(result) = LegsPerRecord * pos
        /\ output = write_inwestomat_transactions(SubSeq(result, 1, Len(output)))
        /\ \A i \in 1..Len(result) : LegInPlace(i)
        /\ pc \in {"start", "write", "returned"} => Len(lookups) = LookupsPerRecord * pos
        /\ pc = "convert" => Len(lookups) = LookupsPerRecord * (pos - 1)
        /\ pc = "raised" =>
            /\ Len(lookups) <= LookupsPerRecord * pos
            /\ Len(lookups) >= LookupsPerRecord * (Len(result) \div LegsPerRecord)
        /\ \A k \in 1..Len(lookups) : lookups[k] = RequestOf(k)

\* an account in USD, two records of the same day: four rows in order, two
\* equal requests
C23_Witness ==
    /\ exchange = "convert_xtb"
    /\ currency = "USD"
    /\ pc = "returned"
    /\ pos = 2
    /\ arg[1] # arg[2]
    /\ Len(output) = 4
    /\ output[1][16] = output[2][16]
    /\ output[3][16] = output[4][16]
    /\ output[1][16] # output[3][16]
    /\ Len(lookups) = 2
    /\ lookups[1] = lookups[2]

\* two Binance trades of the same second and market: two equal requests
C23_WitnessBinance ==
    /\ exchange = "convert_binance"
    /\ pc = "returned"
    /\ pos = 2
    /\ arg[1].typ = "BUY"
    /\ arg[2].typ = "SELL"
    /\ Len(output) = 4
    /\ Len(lookups) = 2
    /\ lookups[1] = lookups[2]

\* between the two legs of the second record: the second row has been read,
\* the rows of the first are written
C23_WitnessBetweenLegs ==
    /\ InRun
    /\ pc = "write"
    /\ pos = 2
    /\ Len(result) = 4
    /\ Len(output) = 3

\* the second record has been read and not yet converted: both rows of the
\* first are written, one request has been sent
C23_WitnessRecordAtHand ==
    /\ InRun
    /\ pc = "convert"
    /\ pos = 2
    /\ Len(output) = 2
    /\ Len(lookups) = 1

====
